---- MODULE Spec2Model ----
(***************************************************************************)
(* Model of the annotation creation / publication pipeline:                *)
(*   - the Annotation aggregate (Annotation.ts),                           *)
(*   - the URI value object (URI.ts) and the AT-URI parser (ATUri.ts),     *)
(*   - the AT Protocol publisher adapter (publish),                        *)
(*   - the AnnotationsFromTemplate batch aggregate and the                 *)
(*     CreateAndPublishAnnotationsFromTemplate use case, whose sources are *)
(*     not part of the tree and are modelled from their specification.     *)
(*                                                                         *)
(* A raw string given to URI.create is the tuple of its characters.  A     *)
(* record uri of the ledger is the tuple of its '/'-separated segments:    *)
(* "at://did/coll/rkey" is <<"at:", "", did, coll, rkey>>.  Error messages *)
(* are tuples of words.                                                    *)
(***************************************************************************)
EXTENDS Integers, Sequences, FiniteSets, TLC

VARIABLES
    pc,          \* [Callers -> step of the use case the invocation is at]
    dto,         \* [Callers -> the request DTO of the invocation]
    idx,         \* [Callers -> index of the per-input / persist loop]
    built,       \* [Callers -> annotations built so far, in input order]
    batch,       \* [Callers -> the AnnotationsFromTemplate aggregate or Undefined]
    pubMap,      \* [Callers -> annotation id -> PublishedRecordId, from publish]
    resp,        \* [Callers -> what the ledger did with the publish request]
    result,      \* [Callers -> the Result returned by execute, or Undefined]
    ledger,      \* records the external ledger holds
    requests,    \* requests sent to the ledger client, in order
    store,       \* annotations persisted by the annotation repository
    saves,       \* [Callers -> number of repository save calls made]
    input,       \* argument of the operation applied by a function-level run
    output       \* its result, Undefined before the call

vars == <<pc, dto, idx, built, batch, pubMap, resp, result, ledger, requests,
          store, saves, input, output>>

ucVars == <<pc, dto, idx, built, batch, pubMap, resp, result, ledger,
            requests, store, saves>>

(***************************************************************************)
(* Bounds                                                                  *)
(***************************************************************************)
MaxAnn == 2          \* longest batch / DTO annotation list

\* Use-case invocations; the second one is idle unless a specification starts it.
Callers == {1, 2}

\* undefined / null.  Value objects are records, so that they can be compared
\* with it; an optional list is absent when the property is.
Undefined == [undefined |-> TRUE]

(***************************************************************************)
(* Result<T, E>                                                            *)
(***************************************************************************)
Ok(v) == [ok |-> TRUE, value |-> v]
Err(kind, message) == [ok |-> FALSE, kind |-> kind, message |-> message]

\* An exception that leaves an operation instead of a Result
Escaped(message) ==
    [ok |-> FALSE, kind |-> "UncaughtException", message |-> message]

Contains(message, word) == \E i \in 1..Len(message) : message[i] = word

Range(s) == {s[i] : i \in 1..Len(s)}

SeqsUpTo(S, n) == UNION {[1..m -> S] : m \in 0..n}

(***************************************************************************)
(* Map<K, V>: a set of <<key, value>> pairs with at most one pair per key  *)
(***************************************************************************)
\* The map after map.set(entries[1]), map.set(entries[2]), ... on an empty
\* map: a later entry replaces an earlier one with the same key.
MapOfEntries(entries) ==
    {entries[i] : i \in {j \in 1..Len(entries) :
        \A l \in (j + 1)..Len(entries) : entries[l][1] # entries[j][1]}}

MapHas(map, key) == \E e \in map : e[1] = key
MapGet(map, key) == (CHOOSE e \in map : e[1] = key)[2]
MapKeys(map) == {e[1] : e \in map}

(***************************************************************************)
(* Annotation aggregate                                                    *)
(***************************************************************************)
Types == {"rating", "dyad"}

\* AnnotationValue.matchesFieldType: the value's type tag is the field's.
matchesFieldType(value, field) == value.type = field.type

\* AnnotationValue.isSameType
isSameType(value, other) == value.type = other.type

\* Guard.againstNullOrUndefinedBulk: the first absent argument, in order.
againstNullOrUndefinedBulk(args) ==
    LET absent == {i \in 1..Len(args) : args[i].argument = Undefined}
    IN  IF absent = {} THEN Ok(Undefined)
        ELSE LET first == CHOOSE i \in absent : \A j \in absent : i <= j
             IN  Err("Guard", <<args[first].argumentName, "is null or undefined">>)

Now == [time |-> "now"]

\* props.name, Undefined when props has no such property
Prop(props, name) == IF name \in DOMAIN props THEN props[name] ELSE Undefined

\* Mutant of Annotation.create: the template ids given are dropped.
AnnotationCreateNoTemplates(props, id) ==
    IF ~matchesFieldType(props.value, props.annotationField)
    THEN Err("Error", <<"Value does not match field type">>)
    ELSE Ok([id |-> id,
             curatorId |-> props.curatorId,
             url |-> props.url,
             annotationField |-> props.annotationField,
             value |-> props.value,
             annotationTemplateIds |-> <<>>,
             note |-> Prop(props, "note"),
             createdAt |-> Now,
             publishedRecordId |-> Prop(props, "publishedRecordId")])

\* The four arguments Annotation.create guards, in the order it lists them
guardArgs(props) ==
    <<[argument |-> Prop(props, "curatorId"), argumentName |-> "curatorId"],
      [argument |-> Prop(props, "url"), argumentName |-> "url"],
      [argument |-> Prop(props, "annotationField"),
       argumentName |-> "annotationField"],
      [argument |-> Prop(props, "value"), argumentName |-> "value"]>>

\* The annotation Annotation.create constructs once its checks have passed
NewAnnotation(props, id) ==
    [id |-> id,
     curatorId |-> props.curatorId,
     url |-> props.url,
     annotationField |-> props.annotationField,
     value |-> props.value,
     annotationTemplateIds |->
         IF "annotationTemplateIds" \in DOMAIN props
         THEN props.annotationTemplateIds ELSE <<>>,
     note |-> Prop(props, "note"),
     createdAt |-> IF Prop(props, "createdAt") = Undefined THEN Now
                   ELSE props.createdAt,
     publishedRecordId |-> Prop(props, "publishedRecordId")]

\* Mutant of Annotation.create: the value's type is never compared with the
\* field's.
AnnotationCreateNoTypeCheck(props, id) ==
    LET guardResult == againstNullOrUndefinedBulk(guardArgs(props))
    IN  IF ~guardResult.ok THEN Err("Error", guardResult.message)
        ELSE Ok(NewAnnotation(props, id))

\* Mutant of Annotation.create: the type comparison comes before the guard.
AnnotationCreateTypeFirst(props, id) ==
    LET guardResult == againstNullOrUndefinedBulk(guardArgs(props))
    IN  IF /\ Prop(props, "value") # Undefined
           /\ Prop(props, "annotationField") # Undefined
           /\ ~matchesFieldType(props.value, props.annotationField)
        THEN Err("Error", <<"Value does not match field type">>)
        ELSE IF ~guardResult.ok THEN Err("Error", guardResult.message)
        ELSE Ok(NewAnnotation(props, id))

\* Mutant of Annotation.create: createdAt is always the current time.
AnnotationCreateStampsNow(props, id) ==
    LET guardResult == againstNullOrUndefinedBulk(guardArgs(props))
    IN  IF ~guardResult.ok THEN Err("Error", guardResult.message)
        ELSE IF ~matchesFieldType(props.value, props.annotationField)
        THEN Err("Error", <<"Value does not match field type">>)
        ELSE Ok([NewAnnotation(props, id) EXCEPT !.createdAt = Now])

\* Annotation.create(props, id)
AnnotationCreate(props, id) ==
    LET guardResult == againstNullOrUndefinedBulk(guardArgs(props))
    IN  IF ~guardResult.ok THEN Err("Error", guardResult.message)
        ELSE IF ~matchesFieldType(props.value, props.annotationField)
        THEN Err("Error", <<"Value does not match field type">>)
        ELSE Ok(NewAnnotation(props, id))

\* Mutants of markAsPublished: one that keeps an identifier already set, one
\* that sets nothing.
markAsPublishedOnce(annotation, publishedRecordId) ==
    IF annotation.publishedRecordId = Undefined
    THEN [annotation EXCEPT !.publishedRecordId = publishedRecordId]
    ELSE annotation

markAsPublishedNoOp(annotation, publishedRecordId) == annotation

\* Annotation.markAsPublished(publishedRecordId)
markAsPublished(annotation, publishedRecordId) ==
    [annotation EXCEPT !.publishedRecordId = publishedRecordId]

\* Annotation.updatePublishedRecordId(publishedRecordId)
updatePublishedRecordId(annotation, publishedRecordId) ==
    [annotation EXCEPT !.publishedRecordId = publishedRecordId]

\* Mutants of updateValue: one that assigns before it compares the types, one
\* that also forgets the publication.
updateValueAssignFirst(annotation, value) ==
    IF ~isSameType(annotation.value, value)
    THEN <<Err("InvalidValueTypeError", <<"Invalid value type">>),
           [annotation EXCEPT !.value = value]>>
    ELSE <<Ok(Undefined), [annotation EXCEPT !.value = value]>>

updateValueUnpublishes(annotation, value) ==
    IF ~isSameType(annotation.value, value)
    THEN <<Err("InvalidValueTypeError", <<"Invalid value type">>), annotation>>
    ELSE <<Ok(Undefined), [annotation EXCEPT !.value = value,
                                             !.publishedRecordId = Undefined]>>

\* Mutant of updateValue: the types are not compared.
updateValueNoTypeCheck(annotation, value) ==
    <<Ok(Undefined), [annotation EXCEPT !.value = value]>>

\* Annotation.updateValue(value): <<Result, annotation afterwards>>
updateValue(annotation, value) ==
    IF ~isSameType(annotation.value, value)
    THEN <<Err("InvalidValueTypeError", <<"Invalid value type">>), annotation>>
    ELSE <<Ok(Undefined), [annotation EXCEPT !.value = value]>>

(***************************************************************************)
(* URI value object.  A raw string is the tuple of its characters.         *)
(***************************************************************************)
Letters == {"a", "d", "e", "h", "p", "r", "t"}
Digits == {"1"}
AlNum == Letters \cup Digits
SchemeChars == AlNum \cup {"+", "-", "."}
SpecialSchemes == {<<"h", "t", "t", "p">>, <<"h", "t", "t", "p", "s">>}

StartsWith(s, prefix) ==
    Len(s) >= Len(prefix) /\ SubSeq(s, 1, Len(prefix)) = prefix

Tail2(s, n) == SubSeq(s, n + 1, Len(s))

\* The authority of "//authority/..." : the characters up to the next '/'.
AuthorityOf(afterSlashes) ==
    LET stops == {i \in 1..Len(afterSlashes) : afterSlashes[i] = "/"}
        stop == IF stops = {} THEN Len(afterSlashes) + 1
                ELSE CHOOSE i \in stops : \A j \in stops : i <= j
    IN  SubSeq(afterSlashes, 1, stop - 1)

\* host[:port] is acceptable: a non-empty host, and digits only after a ':'.
AuthorityParses(authority, mustHaveHost) ==
    LET colons == {i \in 1..Len(authority) : authority[i] = ":"}
        hostEnd == IF colons = {} THEN Len(authority)
                   ELSE (CHOOSE i \in colons : \A j \in colons : i <= j) - 1
    IN  /\ mustHaveHost => hostEnd >= 1
        /\ colons # {} => hostEnd >= 1
        /\ \A i \in 1..hostEnd : authority[i] \in AlNum \cup {"-", "."}
        /\ \A i \in (hostEnd + 2)..Len(authority) : authority[i] \in Digits

\* new URL(value) does not throw: value is an absolute URL.
ParsesAsURL(value) ==
    \E n \in 2..Len(value) :
        /\ value[n] = ":"
        /\ value[1] \in Letters
        /\ \A j \in 2..(n - 1) : value[j] \in SchemeChars
        /\ LET scheme == SubSeq(value, 1, n - 1)
               rest == Tail2(value, n)
           IN  IF scheme \in SpecialSchemes
               THEN \* leading slashes are skipped, a host is required
                    LET lead == {i \in 0..Len(rest) :
                                    \A j \in 1..i : rest[j] = "/"}
                        skip == CHOOSE i \in lead : \A j \in lead : j <= i
                    IN  AuthorityParses(AuthorityOf(Tail2(rest, skip)), TRUE)
               ELSE IF StartsWith(rest, <<"/", "/">>)
               THEN AuthorityParses(AuthorityOf(Tail2(rest, 2)), FALSE)
               ELSE TRUE

\* /at:\/\/[a-zA-Z0-9.-]+\/[a-zA-Z0-9.]+\/[a-zA-Z0-9]+/.test(value)
\* (the expression is not anchored: it may match anywhere in value)
MatchesATRegex(value) ==
    \E i \in 1..Len(value), a \in 1..Len(value), b \in 1..Len(value) :
        /\ i + 4 + a + 1 + b + 1 <= Len(value)
        /\ SubSeq(value, i, i + 4) = <<"a", "t", ":", "/", "/">>
        /\ \A j \in (i + 5)..(i + 4 + a) : value[j] \in AlNum \cup {".", "-"}
        /\ value[i + 5 + a] = "/"
        /\ \A j \in (i + 6 + a)..(i + 5 + a + b) : value[j] \in AlNum \cup {"."}
        /\ value[i + 6 + a + b] = "/"
        /\ value[i + 7 + a + b] \in AlNum

\* new URI(value): TRUE when the constructor returns, FALSE when it throws.
URIConstructs(value) ==
    IF ParsesAsURL(value) THEN TRUE
    ELSE IF StartsWith(value, <<"a", "t", ":", "/", "/">>)
         THEN MatchesATRegex(value)
         ELSE FALSE

\* Mutants of URI.create: one that validates nothing, one that only knows
\* ledger URIs.
URICreateNoCheck(value) == Ok([value |-> value])

URICreateAtOnly(value) ==
    IF StartsWith(value, <<"a", "t", ":", "/", "/">>) /\ MatchesATRegex(value)
    THEN Ok([value |-> value])
    ELSE Err("Error", <<"Invalid URI format">>)

\* URI.create(value)
URICreate(value) ==
    IF ParsesAsURL(value) THEN Ok([value |-> value])
    ELSE IF StartsWith(value, <<"a", "t", ":", "/", "/">>)
         THEN IF ~MatchesATRegex(value)
              THEN Err("Error", <<"Invalid AT URI format">>)
              ELSE Ok([value |-> value])
         ELSE Err("Error", <<"Invalid URI format">>)

(***************************************************************************)
(* External ledger (AT Protocol repository) and the publisher adapter      *)
(***************************************************************************)
COLLECTION == "app.annos.annotation"

CreateResultType == "com.atproto.repo.applyWrites#createResult"
UpdateResultType == "com.atproto.repo.applyWrites#updateResult"

\* PublishedRecordId.create({uri, cid})
PublishedRecordIdCreate(uri, cid) == [uri |-> uri, cid |-> cid]

\* AnnotationsFromTemplateMapper.toCreateOperations: one create operation per
\* annotation, in batch order, each with its own record key.
toCreateOperations(annotations, collection) ==
    [i \in 1..Len(annotations) |->
        [type |-> "com.atproto.repo.applyWrites#create",
         collection |-> collection,
         rkey |-> annotations[i].id,
         value |-> annotations[i].value]]

\* The record a create operation writes into repository repo.
RecordOf(repo, write) ==
    [uri |-> <<"at:", "", repo, write.collection, write.rkey>>,
     cid |-> "cid-" \o write.rkey]

\* The result the ledger reports for one applied create operation.
CreateResultOf(repo, write) ==
    [type |-> CreateResultType,
     uri |-> RecordOf(repo, write).uri,
     cid |-> RecordOf(repo, write).cid]

\* An extra result, of a write that is not part of the request.
StrayResult(repo) ==
    [type |-> CreateResultType,
     uri |-> <<"at:", "", repo, COLLECTION, "stray">>,
     cid |-> "cid-stray"]

\* What agent.com.atproto.repo.applyWrites can do with a request: the ledger
\* applies all writes or none; the call throws or resolves with a response.
\*   applied  the writes are in the ledger afterwards
\*   threw    the call rejected (transport or validation failure), with message
\*   data     the response's data; its results property is optional, and a
\*            malformed response has no data at all
WithResults(results) == [results |-> results]
WithoutResults == [commit |-> "rev"]

LedgerReplies(repo, writes) ==
    LET n == Len(writes)
        good == [i \in 1..n |-> CreateResultOf(repo, writes[i])]
        reply(applied, threw, message, data) ==
            [applied |-> applied, threw |-> threw, message |-> message,
             data |-> data]
    IN  {reply(FALSE, TRUE, <<"fetch failed">>, WithoutResults),
         reply(FALSE, TRUE, <<"InvalidRequest">>, WithoutResults),
         reply(TRUE, TRUE, <<"socket hang up">>, WithoutResults),
         reply(TRUE, FALSE, <<>>, WithResults(good)),
         reply(TRUE, FALSE, <<>>, WithoutResults),
         reply(TRUE, FALSE, <<>>, Undefined),
         reply(TRUE, FALSE, <<>>, WithResults(Append(good, StrayResult(repo))))}
        \cup {reply(TRUE, FALSE, <<>>, WithResults(SubSeq(good, 1, m - 1))) :
                 m \in 1..n}
        \cup {reply(TRUE, FALSE, <<>>,
                    WithResults([good EXCEPT ![i].type = UpdateResultType])) :
                 i \in 1..n}

\* `annotations[0]?.curatorId.value`, falsy when the batch is empty or the
\* curator's value is the empty string
NoCuratorDid(annotations) ==
    Len(annotations) = 0 \/ annotations[1].curatorId.value = ""

\* Mutants of publish: one that maps the results in reverse order, one that
\* returns the identifiers it found when a result is missing, one that reads
\* the result after the one of the annotation.
PublishResultReversed(annotations, reply) ==
    IF NoCuratorDid(annotations)
    THEN Err("Error", <<"No curator DID found in annotations">>)
    ELSE IF reply.threw THEN Err("Error", reply.message)
    ELSE LET createResults ==
                 IF "results" \in DOMAIN reply.data THEN reply.data.results
                 ELSE <<>>
             n == Len(annotations)
         IN  IF \E i \in 1..n :
                    \/ i > Len(createResults)
                    \/ createResults[i].type # CreateResultType
             THEN Err("Error", <<"No create result found for annotation">>)
             ELSE Ok(MapOfEntries(
                     [i \in 1..n |->
                         <<annotations[i].id,
                           PublishedRecordIdCreate(createResults[n + 1 - i].uri,
                                                   createResults[n + 1 - i].cid)>>]))

PublishResultPartial(annotations, reply) ==
    IF NoCuratorDid(annotations)
    THEN Err("Error", <<"No curator DID found in annotations">>)
    ELSE IF reply.threw THEN Err("Error", reply.message)
    ELSE LET createResults ==
                 IF "results" \in DOMAIN reply.data THEN reply.data.results
                 ELSE <<>>
             found == SelectSeq([i \in 1..Len(annotations) |-> i],
                          LAMBDA i : /\ i <= Len(createResults)
                                     /\ createResults[i].type = CreateResultType)
         IN  Ok(MapOfEntries(
                 [j \in 1..Len(found) |->
                     <<annotations[found[j]].id,
                       PublishedRecordIdCreate(createResults[found[j]].uri,
                                               createResults[found[j]].cid)>>]))


PublishResultOffByOne(annotations, reply) ==
    IF NoCuratorDid(annotations)
    THEN Err("Error", <<"No curator DID found in annotations">>)
    ELSE IF reply.threw THEN Err("Error", reply.message)
    ELSE LET createResults ==
                 IF "results" \in DOMAIN reply.data THEN reply.data.results
                 ELSE <<>>
         IN  IF \E i \in 1..Len(annotations) :
                    \/ i + 1 > Len(createResults)
                    \/ createResults[i + 1].type # CreateResultType
             THEN Err("Error", <<"No create result found for annotation">>)
             ELSE Ok(MapOfEntries(
                     [i \in 1..Len(annotations) |->
                         <<annotations[i].id,
                           PublishedRecordIdCreate(createResults[i + 1].uri,
                                                   createResults[i + 1].cid)>>]))

\* Mutant of publish: a call that throws is taken for a success, with
\* identifiers made from the writes.
PublishResultSwallowsThrow(annotations, reply) ==
    IF NoCuratorDid(annotations)
    THEN Err("Error", <<"No curator DID found in annotations">>)
    ELSE LET createResults ==
                 IF reply.threw
                 THEN [i \in 1..Len(annotations) |->
                          CreateResultOf(annotations[1].curatorId.value,
                              toCreateOperations(annotations, COLLECTION)[i])]
                 ELSE IF "results" \in DOMAIN reply.data THEN reply.data.results
                 ELSE <<>>
             bad == {i \in 1..Len(annotations) :
                        \/ i > Len(createResults)
                        \/ createResults[i].type # CreateResultType}
         IN  IF bad # {}
             THEN LET i == CHOOSE j \in bad : \A l \in bad : j <= l
                  IN  Err("Error", <<"No create result found for annotation",
                                     annotations[i].id>>)
             ELSE Ok(MapOfEntries(
                     [i \in 1..Len(annotations) |->
                         <<annotations[i].id,
                           PublishedRecordIdCreate(createResults[i].uri,
                                                   createResults[i].cid)>>]))

\* Mutant of publish: without the catch block, what the ledger client throws
\* and the TypeError of a response without data leave publish as exceptions.
PublishResultNoCatch(annotations, reply) ==
    IF NoCuratorDid(annotations)
    THEN Err("Error", <<"No curator DID found in annotations">>)
    ELSE IF reply.threw THEN Escaped(reply.message)
    ELSE IF reply.data = Undefined
    THEN Escaped(<<"Cannot read properties of undefined">>)
    ELSE LET createResults ==
                 IF "results" \in DOMAIN reply.data THEN reply.data.results
                 ELSE <<>>
             bad == {i \in 1..Len(annotations) :
                        \/ i > Len(createResults)
                        \/ createResults[i].type # CreateResultType}
         IN  IF bad # {}
             THEN LET i == CHOOSE j \in bad : \A l \in bad : j <= l
                  IN  Err("Error", <<"No create result found for annotation",
                                     annotations[i].id>>)
             ELSE Ok(MapOfEntries(
                     [i \in 1..Len(annotations) |->
                         <<annotations[i].id,
                           PublishedRecordIdCreate(createResults[i].uri,
                                                   createResults[i].cid)>>]))

\* ATProtoAnnotationsFromTemplatePublisher.publish, from the reply of the
\* ledger client on: the Result it returns.
PublishResult(annotations, reply) ==
    IF NoCuratorDid(annotations)
    THEN Err("Error", <<"No curator DID found in annotations">>)
    ELSE IF reply.threw THEN Err("Error", reply.message)
    ELSE IF reply.data = Undefined
    THEN Err("Error", <<"Cannot read properties of undefined">>)
    ELSE LET createResults ==
                 IF "results" \in DOMAIN reply.data THEN reply.data.results
                 ELSE <<>>
             bad == {i \in 1..Len(annotations) :
                        \/ i > Len(createResults)
                        \/ createResults[i].type # CreateResultType}
         IN  IF bad # {}
             THEN LET i == CHOOSE j \in bad : \A l \in bad : j <= l
                  IN  Err("Error", <<"No create result found for annotation",
                                     annotations[i].id>>)
             ELSE Ok(MapOfEntries(
                     [i \in 1..Len(annotations) |->
                         <<annotations[i].id,
                           PublishedRecordIdCreate(createResults[i].uri,
                                                   createResults[i].cid)>>]))

\* -- unpublish ----------------------------------------------------------------
DeleteType == "com.atproto.repo.applyWrites#delete"

\* A uri is kept as uri.split("/"): at://did/collection/rkey has five parts,
\* the second one empty.
ATUriThrows(uri) == Len(uri) # 5

\* new DID(part): did.toString() is the part
DID(part) == [value |-> part]

\* new ATUri(uri), for a uri of five parts
ATUri(uri) ==
    [value |-> uri, did |-> DID(uri[3]), collection |-> uri[4], rkey |-> uri[5]]

\* new StrongRef(publishedRecordId).atUri
StrongRefAtUri(publishedRecordId) == ATUri(publishedRecordId.uri)

RepoOf(recordId) == StrongRefAtUri(recordId).did.value

\* The increasing enumeration of a set of numbers
Ascending(S) ==
    CHOOSE f \in [1..Cardinality(S) -> S] :
        \A i, j \in 1..Cardinality(S) : i < j => f[i] < f[j]

\* The records of repository repo, in input order
RecordsOfRepo(recordIds, repo) ==
    LET own == Ascending({i \in 1..Len(recordIds) : RepoOf(recordIds[i]) = repo})
    IN  [i \in 1..Len(own) |->
            [rkey |-> StrongRefAtUri(recordIds[own[i]]).rkey,
             uri |-> recordIds[own[i]].uri]]

\* Mutants of recordsByRepo: one entry per record instead of one per
\* repository, and one that keeps a record key once per repository.
recordsByRepoUngrouped(recordIds) ==
    [i \in 1..Len(recordIds) |->
        [repo |-> RepoOf(recordIds[i]),
         records |-> <<[rkey |-> StrongRefAtUri(recordIds[i]).rkey,
                        uri |-> recordIds[i].uri]>>]]

recordsByRepoDistinctKeys(recordIds) ==
    LET firsts == Ascending({i \in 1..Len(recordIds) :
                      \A j \in 1..(i - 1) :
                          RepoOf(recordIds[j]) # RepoOf(recordIds[i])})
        kept(repo) == Ascending({i \in 1..Len(recordIds) :
                          /\ RepoOf(recordIds[i]) = repo
                          /\ \A j \in 1..(i - 1) :
                                 recordIds[j].uri # recordIds[i].uri})
    IN  [g \in 1..Len(firsts) |->
            [repo |-> RepoOf(recordIds[firsts[g]]),
             records |->
                 [i \in 1..Len(kept(RepoOf(recordIds[firsts[g]]))) |->
                     [rkey |-> StrongRefAtUri(
                          recordIds[kept(RepoOf(recordIds[firsts[g]]))[i]]).rkey,
                      uri |-> recordIds[
                          kept(RepoOf(recordIds[firsts[g]]))[i]].uri]]]]

\* recordsByRepo.entries() after the grouping loop: one entry per repository,
\* in the order in which the repositories first occur in the input
recordsByRepo(recordIds) ==
    LET firsts == Ascending({i \in 1..Len(recordIds) :
                      \A j \in 1..(i - 1) :
                          RepoOf(recordIds[j]) # RepoOf(recordIds[i])})
    IN  [g \in 1..Len(firsts) |->
            [repo |-> RepoOf(recordIds[firsts[g]]),
             records |-> RecordsOfRepo(recordIds, RepoOf(recordIds[firsts[g]]))]]

\* The delete operations of one repository's records
deleteWrites(records) ==
    [i \in 1..Len(records) |->
        [type |-> DeleteType, collection |-> COLLECTION, rkey |-> records[i].rkey]]

\* The records among held that a delete request removes when it is applied
DeletedBy(held, repo, writes) ==
    {r \in held : \E i \in 1..Len(writes) :
        r.uri = <<"at:", "", repo, writes[i].collection, writes[i].rkey>>}

\* What applyWrites can do with a delete request: all deletes applied or none,
\* the call resolves or throws.
DeleteReplies ==
    {[applied |-> TRUE, threw |-> FALSE, message |-> <<>>],
     [applied |-> FALSE, threw |-> TRUE, message |-> <<"fetch failed">>],
     [applied |-> TRUE, threw |-> TRUE, message |-> <<"socket hang up">>]}

(***************************************************************************)
(* AnnotationsFromTemplate (batch aggregate)                               *)
(***************************************************************************)
FieldIdsOf(annotations) ==
    [i \in 1..Len(annotations) |-> annotations[i].annotationField.fieldId]

HasDuplicates(s) == \E i, j \in 1..Len(s) : i < j /\ s[i] = s[j]

IsRequired(entry) == entry.required

\* The ids of the template's required fields no annotation refers to, in
\* template order.
MissingRequired(template, annotations) ==
    LET required == SelectSeq(template.fields, IsRequired)
        covered(entry) == entry.field.fieldId \in Range(FieldIdsOf(annotations))
        uncovered(entry) == ~covered(entry)
        missing == SelectSeq(required, uncovered)
    IN  [i \in 1..Len(missing) |-> missing[i].field.fieldId]

\* Mutant of create: only required fields are checked for duplicates.
AnnotationsFromTemplateCreateLax(props) ==
    IF \E i \in 1..Len(props.annotations) :
           props.annotations[i].curatorId # props.curatorId
    THEN Err("InvariantViolation",
             <<"All annotations must have the same curator as the batch">>)
    ELSE IF \E i, j \in 1..Len(props.annotations) :
                /\ i < j
                /\ FieldIdsOf(props.annotations)[i] = FieldIdsOf(props.annotations)[j]
                /\ \E e \in Range(props.template.fields) :
                       e.required /\ e.field.fieldId = FieldIdsOf(props.annotations)[i]
    THEN Err("InvariantViolation", <<"Duplicate annotation field">>)
    ELSE IF Len(MissingRequired(props.template, props.annotations)) > 0
    THEN Err("InvariantViolation", <<"Missing required fields">>)
    ELSE Ok([annotations |-> props.annotations,
             template |-> props.template,
             curatorId |-> props.curatorId,
             createdAt |-> props.createdAt])

\* Mutant of create: required-field coverage is checked first, and only the
\* first missing field is named.
AnnotationsFromTemplateCreateCoverageFirst(props) ==
    IF Len(MissingRequired(props.template, props.annotations)) > 0
    THEN Err("InvariantViolation",
             <<"Missing required fields",
               MissingRequired(props.template, props.annotations)[1]>>)
    ELSE IF \E i \in 1..Len(props.annotations) :
                props.annotations[i].curatorId # props.curatorId
    THEN Err("InvariantViolation",
             <<"All annotations must have the same curator as the batch">>)
    ELSE IF HasDuplicates(FieldIdsOf(props.annotations))
    THEN Err("InvariantViolation", <<"Duplicate annotation field">>)
    ELSE Ok([annotations |-> props.annotations,
             template |-> props.template,
             curatorId |-> props.curatorId,
             createdAt |-> props.createdAt])

\* AnnotationsFromTemplate.create({annotations, template, curatorId, createdAt})
AnnotationsFromTemplateCreate(props) ==
    IF \E i \in 1..Len(props.annotations) :
           props.annotations[i].curatorId # props.curatorId
    THEN Err("InvariantViolation",
             <<"All annotations must have the same curator as the batch">>)
    ELSE IF HasDuplicates(FieldIdsOf(props.annotations))
    THEN Err("InvariantViolation", <<"Duplicate annotation field">>)
    ELSE IF Len(MissingRequired(props.template, props.annotations)) > 0
    THEN Err("InvariantViolation",
             <<"Missing required fields">>
                 \o MissingRequired(props.template, props.annotations))
    ELSE Ok([annotations |-> props.annotations,
             template |-> props.template,
             curatorId |-> props.curatorId,
             createdAt |-> props.createdAt])

\* AnnotationsFromTemplate.markAllAnnotationsAsPublished(idsByAnnotationId):
\* <<Result, aggregate afterwards>>
markAllAnnotationsAsPublished(aggregate, idsByAnnotationId) ==
    IF \E i \in 1..Len(aggregate.annotations) :
           ~MapHas(idsByAnnotationId, aggregate.annotations[i].id)
    THEN <<Err("Error", <<"Missing published record id for annotation">>),
           aggregate>>
    ELSE <<Ok(Undefined),
           [aggregate EXCEPT !.annotations =
               [i \in 1..Len(aggregate.annotations) |->
                   markAsPublished(aggregate.annotations[i],
                       MapGet(idsByAnnotationId,
                              aggregate.annotations[i].id))]]>>

(***************************************************************************)
(* Stores the use case reads: annotation fields and templates              *)
(***************************************************************************)
Field(id, type) == [fieldId |-> id, type |-> type]

FieldStore == {Field("F1", "rating"), Field("F2", "dyad")}

TemplateEntry(field, required) == [field |-> field, required |-> required]

Template(id, fields) == [templateId |-> id, fields |-> fields]

TemplateStore ==
    {Template("T1", <<TemplateEntry(Field("F1", "rating"), TRUE),
                      TemplateEntry(Field("F2", "dyad"), TRUE)>>),
     Template("T2", <<TemplateEntry(Field("F1", "rating"), TRUE),
                      TemplateEntry(Field("F2", "dyad"), FALSE)>>),
     Template("T3", <<TemplateEntry(Field("F1", "rating"), FALSE),
                      TemplateEntry(Field("F2", "dyad"), FALSE)>>)}

\* repository.findById: the stored entity with this id, or Undefined (null)
FindField(fieldId) ==
    IF \E f \in FieldStore : f.fieldId = fieldId
    THEN CHOOSE f \in FieldStore : f.fieldId = fieldId
    ELSE Undefined

FindTemplate(templateId) ==
    IF \E t \in TemplateStore : t.templateId = templateId
    THEN CHOOSE t \in TemplateStore : t.templateId = templateId
    ELSE Undefined

\* annotationRepository.findByPublishedRecordId
FindByPublishedRecordId(annotations, publishedRecordId) ==
    IF \E a \in annotations : a.publishedRecordId = publishedRecordId
    THEN CHOOSE a \in annotations : a.publishedRecordId = publishedRecordId
    ELSE Undefined

\* annotationRepository.save: insert, or replace the row with the same id
SaveAnnotation(annotations, annotation) ==
    {a \in annotations : a.id # annotation.id} \cup {annotation}

(***************************************************************************)
(* Value objects built from the DTO's primitives                           *)
(***************************************************************************)
CuratorIdCreate(raw) ==
    IF raw = "" THEN Err("Error", <<"Invalid curator id">>)
    ELSE Ok([value |-> raw])

AnnotationTemplateIdCreate(raw) ==
    IF raw = "" THEN Err("Error", <<"Invalid template id">>)
    ELSE Ok([value |-> raw])

\* AnnotationValueFactory.create: a value of the declared type, when the raw
\* payload has that type's shape.
AnnotationValueCreate(type, payload) ==
    IF payload.shape # type THEN Err("Error", <<"Invalid annotation value">>)
    ELSE Ok([type |-> type, payload |-> payload])

AnnotationIdOf(k, i) == "a" \o ToString(k) \o "-" \o ToString(i)

(***************************************************************************)
(* Use case: CreateAndPublishAnnotationsFromTemplate.execute               *)
(*   validate-inputs -> load-template -> per-input -> assemble-batch ->    *)
(*   publish -> mark-published -> persist-each -> respond                  *)
(* One action per step; each awaited collaborator call is part of the step *)
(* that awaits it.                                                         *)
(***************************************************************************)
Respond(k, r) ==
    /\ result' = [result EXCEPT ![k] = r]
    /\ pc' = [pc EXCEPT ![k] = "respond"]

Goto(k, step) ==
    /\ pc' = [pc EXCEPT ![k] = step]
    /\ UNCHANGED result

\* validate-inputs: the value objects of the DTO's primitives
ValidateInputs(k) ==
    /\ pc[k] = "validate-inputs"
    /\ IF \/ ~CuratorIdCreate(dto[k].curatorId).ok
          \/ ~URICreate(dto[k].url).ok
          \/ ~AnnotationTemplateIdCreate(dto[k].templateId).ok
       THEN Respond(k, Err("Validation", <<"Invalid annotation properties">>))
       ELSE Goto(k, "load-template")
    /\ UNCHANGED <<dto, idx, built, batch, pubMap, resp, ledger, requests,
                   store, saves, input, output>>

\* Mutant of load-template: an exception of the template store is not caught.
LoadTemplateNoCatch(k) ==
    /\ pc[k] = "load-template"
    /\ \E throws \in BOOLEAN :
        IF throws
        THEN Respond(k, Escaped(<<"template store unavailable">>))
        ELSE IF FindTemplate(dto[k].templateId) = Undefined
        THEN Respond(k, Err("NotFound",
                            <<"Template", dto[k].templateId, "not found">>))
        ELSE Goto(k, IF Len(dto[k].annotations) = 0 THEN "assemble-batch"
                     ELSE "per-input")
    /\ UNCHANGED <<dto, idx, built, batch, pubMap, resp, ledger, requests,
                   store, saves, input, output>>

\* load-template: annotationTemplateRepository.findById
LoadTemplate(k) ==
    /\ pc[k] = "load-template"
    /\ \E throws \in BOOLEAN :
        IF throws
        THEN Respond(k, Err("Unexpected", <<"template store unavailable">>))
        ELSE IF FindTemplate(dto[k].templateId) = Undefined
        THEN Respond(k, Err("NotFound",
                            <<"Template", dto[k].templateId, "not found">>))
        ELSE Goto(k, IF Len(dto[k].annotations) = 0 THEN "assemble-batch"
                     ELSE "per-input")
    /\ UNCHANGED <<dto, idx, built, batch, pubMap, resp, ledger, requests,
                   store, saves, input, output>>

\* per-input: load-field -> type-check -> build-value -> build-annotation,
\* for the input at idx
BuildAnnotation(k, i) ==
    LET in == dto[k].annotations[i]
        field == FindField(in.annotationFieldId)
    IN  IF field = Undefined
        THEN Err("NotFound", <<"Field", in.annotationFieldId, "not found">>)
        ELSE IF in.type # field.type
        THEN Err("TypeMismatch", <<"Value type does not match field type">>)
        ELSE IF ~AnnotationValueCreate(in.type, in.value).ok
        THEN Err("Validation", AnnotationValueCreate(in.type, in.value).message)
        ELSE LET created == AnnotationCreate(
                     [curatorId |-> CuratorIdCreate(dto[k].curatorId).value,
                      url |-> URICreate(dto[k].url).value,
                      annotationField |-> field,
                      value |-> AnnotationValueCreate(in.type, in.value).value,
                      annotationTemplateIds |->
                          <<AnnotationTemplateIdCreate(dto[k].templateId).value>>,
                      note |-> in.note],
                     AnnotationIdOf(k, i))
             IN  IF ~created.ok THEN Err("Validation", created.message)
                 ELSE created

PerInput(k) ==
    /\ pc[k] = "per-input"
    /\ \/ \* the field lookup throws
          /\ Respond(k, Err("Unexpected", <<"field store unavailable">>))
          /\ UNCHANGED <<built, idx>>
       \/ LET r == BuildAnnotation(k, idx[k])
          IN  IF ~r.ok
              THEN Respond(k, r) /\ UNCHANGED <<built, idx>>
              ELSE /\ built' = [built EXCEPT ![k] = Append(@, r.value)]
                   /\ idx' = [idx EXCEPT ![k] = @ + 1]
                   /\ Goto(k, IF idx[k] = Len(dto[k].annotations)
                              THEN "assemble-batch" ELSE "per-input")
    /\ UNCHANGED <<dto, batch, pubMap, resp, ledger, requests, store, saves,
                   input, output>>

\* assemble-batch: AnnotationsFromTemplate.create
AssembleBatch(k) ==
    /\ pc[k] = "assemble-batch"
    /\ LET r == AnnotationsFromTemplateCreate(
                    [annotations |-> built[k],
                     template |-> FindTemplate(dto[k].templateId),
                     curatorId |-> CuratorIdCreate(dto[k].curatorId).value,
                     createdAt |-> Now])
       IN  IF ~r.ok
           THEN Respond(k, r) /\ UNCHANGED batch
           ELSE /\ batch' = [batch EXCEPT ![k] = r.value]
                /\ Goto(k, "publish")
    /\ UNCHANGED <<dto, idx, built, pubMap, resp, ledger, requests, store,
                   saves, input, output>>

\* Mutant of publish: a call that throws is made a second time.
PublishResends(k) ==
    /\ pc[k] = "publish"
    /\ LET annotations == batch[k].annotations
           repo == annotations[1].curatorId.value
           writes == toCreateOperations(annotations, COLLECTION)
       IN  IF NoCuratorDid(annotations)
           THEN /\ Respond(k, [PublishResult(annotations, Undefined)
                                  EXCEPT !.kind = "PublishFailure"])
                /\ UNCHANGED <<pubMap, resp, ledger, requests>>
           ELSE \E reply \in LedgerReplies(repo, writes) :
                LET r == PublishResult(annotations, reply)
                IN  /\ requests' =
                           LET request == [by |-> k, repo |-> repo,
                                           writes |-> writes]
                           IN  IF reply.threw
                               THEN requests \o <<request, request>>
                               ELSE Append(requests, request)
                    /\ resp' = [resp EXCEPT ![k] = reply]
                    /\ ledger' = IF reply.applied
                                 THEN ledger \cup {RecordOf(repo, writes[i]) :
                                                     i \in 1..Len(writes)}
                                 ELSE ledger
                    /\ IF ~r.ok
                       THEN /\ Respond(k, [r EXCEPT !.kind = "PublishFailure"])
                            /\ UNCHANGED pubMap
                       ELSE /\ pubMap' = [pubMap EXCEPT ![k] = r.value]
                            /\ Goto(k, "mark-published")
    /\ UNCHANGED <<dto, idx, built, batch, store, saves, input, output>>

\* Mutant of publish: the request is sent before the curator is looked at.
PublishRequestsFirst(k) ==
    /\ pc[k] = "publish"
    /\ LET annotations == batch[k].annotations
           repo == IF Len(annotations) = 0 THEN ""
                   ELSE annotations[1].curatorId.value
           writes == toCreateOperations(annotations, COLLECTION)
       IN  \E reply \in LedgerReplies(repo, writes) :
           LET r == PublishResult(annotations, reply)
           IN  /\ requests' = Append(requests,
                       [by |-> k, repo |-> repo, writes |-> writes])
               /\ resp' = [resp EXCEPT ![k] = reply]
               /\ ledger' = IF reply.applied
                            THEN ledger \cup {RecordOf(repo, writes[i]) :
                                                i \in 1..Len(writes)}
                            ELSE ledger
               /\ IF ~r.ok
                  THEN /\ Respond(k, [r EXCEPT !.kind = "PublishFailure"])
                       /\ UNCHANGED pubMap
                  ELSE /\ pubMap' = [pubMap EXCEPT ![k] = r.value]
                       /\ Goto(k, "mark-published")
    /\ UNCHANGED <<dto, idx, built, batch, store, saves, input, output>>

\* Mutant of the publish step: the publisher keeps the identifiers of its
\* last call in one place for all invocations.
PublishSharesMap(k) ==
    /\ pc[k] = "publish"
    /\ LET annotations == batch[k].annotations
           repo == annotations[1].curatorId.value
           writes == toCreateOperations(annotations, COLLECTION)
       IN  IF NoCuratorDid(annotations)
           THEN /\ Respond(k, [PublishResult(annotations, Undefined)
                                  EXCEPT !.kind = "PublishFailure"])
                /\ UNCHANGED <<pubMap, resp, ledger, requests>>
           ELSE \E reply \in LedgerReplies(repo, writes) :
                LET r == PublishResult(annotations, reply)
                IN  /\ requests' = Append(requests,
                            [by |-> k, repo |-> repo, writes |-> writes])
                    /\ resp' = [resp EXCEPT ![k] = reply]
                    /\ ledger' = IF reply.applied
                                 THEN ledger \cup {RecordOf(repo, writes[i]) :
                                                     i \in 1..Len(writes)}
                                 ELSE ledger
                    /\ IF ~r.ok
                       THEN /\ Respond(k, [r EXCEPT !.kind = "PublishFailure"])
                            /\ UNCHANGED pubMap
                       ELSE /\ pubMap' = [j \in Callers |-> r.value]
                            /\ Goto(k, "mark-published")
    /\ UNCHANGED <<dto, idx, built, batch, store, saves, input, output>>

\* publish: publisher.publish(batch).  The adapter sends one applyWrites
\* request unless the batch names no curator; the ledger's reply decides the
\* Result.
Publish(k) ==
    /\ pc[k] = "publish"
    /\ LET annotations == batch[k].annotations
           repo == annotations[1].curatorId.value
           writes == toCreateOperations(annotations, COLLECTION)
       IN  IF NoCuratorDid(annotations)
           THEN /\ Respond(k, [PublishResult(annotations, Undefined)
                                  EXCEPT !.kind = "PublishFailure"])
                /\ UNCHANGED <<pubMap, resp, ledger, requests>>
           ELSE \E reply \in LedgerReplies(repo, writes) :
                LET r == PublishResult(annotations, reply)
                IN  /\ requests' = Append(requests,
                            [by |-> k, repo |-> repo, writes |-> writes])
                    /\ resp' = [resp EXCEPT ![k] = reply]
                    /\ ledger' = IF reply.applied
                                 THEN ledger \cup {RecordOf(repo, writes[i]) :
                                                     i \in 1..Len(writes)}
                                 ELSE ledger
                    /\ IF ~r.ok
                       THEN /\ Respond(k, [r EXCEPT !.kind = "PublishFailure"])
                            /\ UNCHANGED pubMap
                       ELSE /\ pubMap' = [pubMap EXCEPT ![k] = r.value]
                            /\ Goto(k, "mark-published")
    /\ UNCHANGED <<dto, idx, built, batch, store, saves, input, output>>

\* mark-published: batch.markAllAnnotationsAsPublished(publishedRecordIds)
MarkPublished(k) ==
    /\ pc[k] = "mark-published"
    /\ LET r == markAllAnnotationsAsPublished(batch[k], pubMap[k])
       IN  /\ batch' = [batch EXCEPT ![k] = r[2]]
           /\ IF ~r[1].ok
              THEN Respond(k, r[1]) /\ UNCHANGED idx
              ELSE /\ idx' = [idx EXCEPT ![k] = 1]
                   /\ Goto(k, "persist-each")
    /\ UNCHANGED <<dto, built, pubMap, resp, ledger, requests, store, saves,
                   input, output>>

\* Mutant of persist-each: a save that fails is tried again.
PersistEachRetries(k) ==
    /\ pc[k] = "persist-each"
    /\ LET annotations == batch[k].annotations
       IN  IF idx[k] > Len(annotations)
           THEN /\ Respond(k, Ok([annotationIds |->
                        [i \in 1..Len(annotations) |-> annotations[i].id]]))
                /\ UNCHANGED <<store, saves, idx>>
           ELSE /\ saves' = [saves EXCEPT ![k] = @ + 1]
                /\ \E outcome \in {"saved", "failed", "threw"} :
                    IF outcome = "saved"
                    THEN /\ store' = SaveAnnotation(store, annotations[idx[k]])
                         /\ idx' = [idx EXCEPT ![k] = @ + 1]
                         /\ Goto(k, "persist-each")
                    ELSE IF outcome = "failed"
                    THEN /\ Goto(k, "persist-each")
                         /\ UNCHANGED <<store, idx>>
                    ELSE /\ Respond(k, Err("Unexpected", <<"store unavailable">>))
                         /\ UNCHANGED <<store, idx>>
    /\ UNCHANGED <<dto, built, batch, pubMap, resp, ledger, requests, input,
                   output>>

\* persist-each: annotationRepository.save of the annotation at idx; after
\* the last one, respond with the annotation ids in batch order
PersistEach(k) ==
    /\ pc[k] = "persist-each"
    /\ LET annotations == batch[k].annotations
       IN  IF idx[k] > Len(annotations)
           THEN /\ Respond(k, Ok([annotationIds |->
                        [i \in 1..Len(annotations) |-> annotations[i].id]]))
                /\ UNCHANGED <<store, saves, idx>>
           ELSE /\ saves' = [saves EXCEPT ![k] = @ + 1]
                /\ \E outcome \in {"saved", "failed", "threw"} :
                    IF outcome = "saved"
                    THEN /\ store' = SaveAnnotation(store, annotations[idx[k]])
                         /\ idx' = [idx EXCEPT ![k] = @ + 1]
                         /\ Goto(k, "persist-each")
                    ELSE /\ Respond(k,
                              IF outcome = "failed"
                              THEN Err("PersistFailure",
                                       <<"Failed to save annotation">>)
                              ELSE Err("Unexpected", <<"store unavailable">>))
                         /\ UNCHANGED <<store, idx>>
    /\ UNCHANGED <<dto, built, batch, pubMap, resp, ledger, requests, input,
                   output>>

(***************************************************************************)
(* Requests the use case is given                                          *)
(***************************************************************************)
WebUrl == <<"h", "t", "t", "p", ":", "/", "/", "e", "/", "r">>
NotAUrl == <<"e", "/", "r">>

Payload(shape) == [shape |-> shape]

AnnotationInputs ==
    [annotationFieldId : {"F1", "F2", "F9"},
     type : Types,
     value : {Payload(t) : t \in Types},
     note : {Undefined}]

Requests ==
    [curatorId : {"did:plc:curator123", ""},
     url : {WebUrl, NotAUrl},
     templateId : {"T1", "T2", "T3", "T9", ""},
     annotations : SeqsUpTo(AnnotationInputs, MaxAnn)]

IdleRequest ==
    [curatorId |-> "", url |-> NotAUrl, templateId |-> "", annotations |-> <<>>]

NoCall == input = Undefined /\ output = Undefined

\* The state of the invocations before any step; those in started are at
\* step `step`, the others never run.
Fresh(started, step) ==
    /\ pc = [k \in Callers |-> IF k \in started THEN step ELSE "idle"]
    /\ idx = [k \in Callers |-> 1]
    /\ pubMap = [k \in Callers |-> {}]
    /\ resp = [k \in Callers |-> Undefined]
    /\ result = [k \in Callers |-> Undefined]
    /\ ledger = {}
    /\ requests = <<>>
    /\ store = {}
    /\ saves = [k \in Callers |-> 0]

Init ==
    /\ \E d \in Requests :
           dto = [k \in Callers |-> IF k = 1 THEN d ELSE IdleRequest]
    /\ built = [k \in Callers |-> <<>>]
    /\ batch = [k \in Callers |-> Undefined]
    /\ Fresh({1}, "validate-inputs")
    /\ NoCall

Next ==
    \E k \in Callers :
        \/ ValidateInputs(k)
        \/ LoadTemplate(k)
        \/ PerInput(k)
        \/ AssembleBatch(k)
        \/ Publish(k)
        \/ MarkPublished(k)
        \/ PersistEach(k)

Spec == Init /\ [][Next]_vars

(***************************************************************************)
(* Function-level runs: Init draws the arguments, one action applies the   *)
(* operation.                                                              *)
(***************************************************************************)
Idle ==
    /\ dto = [k \in Callers |-> IdleRequest]
    /\ built = [k \in Callers |-> <<>>]
    /\ batch = [k \in Callers |-> Undefined]
    /\ Fresh({}, "idle")

CuratorIds == {[value |-> "did:plc:curator123"], [value |-> "did:plc:other"]}

BatchFields == {Field("F1", "rating"), Field("F2", "dyad"), Field("F3", "rating")}

\* The annotation Annotation.create makes for field f, with id `id`
AnnotationOf(id, curatorId, field, props) ==
    AnnotationCreate([curatorId |-> curatorId,
                      url |-> [value |-> WebUrl],
                      annotationField |-> field,
                      value |-> [type |-> field.type,
                                 payload |-> Payload(field.type)]] @@ props,
                     id).value

\* Annotation lists with distinct ids: the i-th has id "p<i>"
AnnotationLists(curatorIds, propsSet) ==
    UNION {{[i \in 1..n |-> AnnotationOf("p" \o ToString(i), c[i], f[i], q[i])] :
               c \in [1..n -> curatorIds], f \in [1..n -> BatchFields],
               q \in [1..n -> propsSet]} :
           n \in 0..MaxAnn}

NoProps == [note |-> Undefined]

\* -- AnnotationsFromTemplate.create ---------------------------------------
BatchTemplates ==
    {Template("T", <<TemplateEntry(Field("F1", "rating"), r1),
                     TemplateEntry(Field("F2", "dyad"), r2)>>) :
        r1, r2 \in BOOLEAN}

BatchCreateInputs ==
    [annotations : AnnotationLists(CuratorIds, {NoProps}),
     template : BatchTemplates,
     curatorId : {[value |-> "did:plc:curator123"]},
     createdAt : {Now}]

InitBatchCreate ==
    /\ Idle
    /\ input \in BatchCreateInputs
    /\ output = Undefined

ApplyBatchCreate ==
    /\ output = Undefined
    /\ output' = [result |-> AnnotationsFromTemplateCreate(input)]
    /\ UNCHANGED <<ucVars, input>>

NextBatchCreate == ApplyBatchCreate

SpecBatchCreate == InitBatchCreate /\ [][NextBatchCreate]_vars

\* -- AnnotationsFromTemplate.markAllAnnotationsAsPublished ----------------
PublishedRecordIds ==
    {PublishedRecordIdCreate(<<"at:", "", "did:plc:curator123", COLLECTION, r>>,
                             "cid-" \o r) : r \in {"r0", "r1", "r2"}}

EarlierRecord ==
    PublishedRecordIdCreate(<<"at:", "", "did:plc:curator123", COLLECTION, "r0">>,
                            "cid-r0")

NoTemplateRequirements ==
    Template("T", <<TemplateEntry(Field("F1", "rating"), FALSE),
                    TemplateEntry(Field("F2", "dyad"), FALSE)>>)

\* The aggregates create returns for annotations that may have been published
\* before
Aggregates ==
    LET made == {AnnotationsFromTemplateCreate(
                     [annotations |-> a,
                      template |-> NoTemplateRequirements,
                      curatorId |-> [value |-> "did:plc:curator123"],
                      createdAt |-> Now]) :
                 a \in AnnotationLists({[value |-> "did:plc:curator123"]},
                          {NoProps,
                           [note |-> Undefined,
                            publishedRecordId |-> EarlierRecord]})}
    IN  {r.value : r \in {x \in made : x.ok}}

MapKeyIds == {"p" \o ToString(i) : i \in 1..MaxAnn} \cup {"px"}

\* Every map from some of the ids to record identifiers
IdMaps ==
    UNION {{{<<key, m[key]>> : key \in keys} :
               m \in [keys -> PublishedRecordIds \ {EarlierRecord}]} :
           keys \in SUBSET MapKeyIds}

InitMarkAll ==
    /\ Idle
    /\ input \in [aggregate : Aggregates, idsByAnnotationId : IdMaps]
    /\ output = Undefined

ApplyMarkAll ==
    /\ output = Undefined
    /\ LET r == markAllAnnotationsAsPublished(input.aggregate,
                                              input.idsByAnnotationId)
       IN  output' = [result |-> r[1], after |-> r[2]]
    /\ UNCHANGED <<ucVars, input>>

NextMarkAll == ApplyMarkAll

SpecMarkAll == InitMarkAll /\ [][NextMarkAll]_vars

\* -- ATProtoAnnotationsFromTemplatePublisher.publish ------------------------
\* The aggregates create returns for unpublished annotations of one curator
PublishBatches ==
    LET made == {AnnotationsFromTemplateCreate(
                     [annotations |-> a,
                      template |-> NoTemplateRequirements,
                      curatorId |-> c,
                      createdAt |-> Now]) :
                 c \in CuratorIds, a \in AnnotationLists(CuratorIds, {NoProps})}
    IN  {r.value : r \in {x \in made : x.ok}}

InitPublish ==
    /\ dto = [k \in Callers |-> IdleRequest]
    /\ built = [k \in Callers |-> <<>>]
    /\ \E b \in PublishBatches :
           batch = [k \in Callers |-> IF k = 1 THEN b ELSE Undefined]
    /\ Fresh({1}, "publish")
    /\ NoCall

NextPublish == \E k \in Callers : Publish(k)

SpecPublish == InitPublish /\ [][NextPublish]_vars

\* -- Runs in which every collaborator call returns ----------------------------
\* One step of invocation k: the call it awaits has returned
Step(k) ==
    \/ ValidateInputs(k)
    \/ LoadTemplate(k)
    \/ PerInput(k)
    \/ AssembleBatch(k)
    \/ Publish(k)
    \/ MarkPublished(k)
    \/ PersistEach(k)

\* Requests that end at each of the steps: inputs that are accepted, that
\* name an unknown field, whose type is not the field's, whose value is not
\* of its type; a request with an invalid curator and one with an invalid url
AwaitedInputs ==
    {in \in AnnotationInputs :
        /\ in.annotationFieldId = "F1" => in.value = Payload(in.type)
        /\ in.annotationFieldId = "F2" => in.type = "dyad"
        /\ in.annotationFieldId = "F9" => in.type = "rating"
                                          /\ in.value = Payload(in.type)}

AwaitedRequests ==
    {d \in [curatorId : {"did:plc:curator123", ""},
            url : {WebUrl, NotAUrl},
            templateId : {"T1", "T3", "T9"},
            annotations : SeqsUpTo(AwaitedInputs, 2)] :
        (d.curatorId = "" \/ d.url = NotAUrl) =>
            /\ d.annotations = <<>>
            /\ d.templateId = "T1"
            /\ d.curatorId # "" \/ d.url # NotAUrl}

InitAllCallsReturn ==
    /\ \E d \in AwaitedRequests :
           dto = [k \in Callers |-> IF k = 1 THEN d ELSE IdleRequest]
    /\ built = [k \in Callers |-> <<>>]
    /\ batch = [k \in Callers |-> Undefined]
    /\ Fresh({1}, "validate-inputs")
    /\ NoCall

\* An invocation that awaits a call is resumed when the call returns, and
\* every call returns: no invocation waits forever at a step it can take.
SpecAllCallsReturn ==
    InitAllCallsReturn /\ [][Next]_vars /\ \A k \in Callers : WF_vars(Step(k))

\* -- Two invocations of the use case at once ----------------------------------
\* Requests that pass validation, for a template without required fields or
\* for one that does not exist, with at most one annotation
ConcurrentRequests ==
    {d \in [curatorId : {"did:plc:curator123"},
            url : {WebUrl},
            templateId : {"T3", "T9"},
            annotations : SeqsUpTo(AnnotationInputs, 1)] : TRUE}

\* Both invocations are at their first step; every step is a suspension point
\* at which the other one may run.
InitConcurrent ==
    /\ dto \in [Callers -> ConcurrentRequests]
    /\ built = [k \in Callers |-> <<>>]
    /\ batch = [k \in Callers |-> Undefined]
    /\ Fresh(Callers, "validate-inputs")
    /\ NoCall

SpecConcurrent == InitConcurrent /\ [][Next]_vars

\* -- The published_records table ----------------------------------------------
\* Rows: id (primary key), uri and cid (not null)
PublishedRecordRows ==
    [id : {"u1", "u2", "u3"},
     uri : {<<"at:", "", "did:plc:curator123", COLLECTION, r>> : r \in {"r1", "r2"}},
     cid : {"cid-r1", "cid-r2"}]

PrimaryKeyViolation(rows, row) == \E r \in rows : r.id = row.id

\* Mutant: the index on (uri, cid) is not unique.
IndexNotUnique(rows, row) == FALSE

\* uri_cid_unique_idx: a row with the same uri and the same cid exists
UniqueIndexViolation(rows, row) ==
    \E r \in rows : r.uri = row.uri /\ r.cid = row.cid

\* What a statement did: accepted or not, and the table before it
Statement(kind, row, accepted, before) ==
    [kind |-> kind, row |-> row, accepted |-> accepted, before |-> before]

InitPublishedRecords ==
    /\ Idle
    /\ NoCall

\* INSERT INTO published_records
InsertPublishedRecord ==
    /\ \E row \in PublishedRecordRows :
           LET accepted == /\ ~PrimaryKeyViolation(store, row)
                           /\ ~UniqueIndexViolation(store, row)
           IN  /\ store' = IF accepted THEN store \cup {row} ELSE store
               /\ output' = Statement("insert", row, accepted, store)
    /\ UNCHANGED <<pc, dto, idx, built, batch, pubMap, resp, result, ledger,
                   requests, saves, input>>

\* UPDATE published_records SET uri, cid WHERE id
UpdatePublishedRecord ==
    /\ \E old \in store, row \in PublishedRecordRows :
           /\ row.id = old.id
           /\ LET accepted == ~UniqueIndexViolation(store \ {old}, row)
              IN  /\ store' = IF accepted THEN (store \ {old}) \cup {row}
                              ELSE store
                  /\ output' = Statement("update", row, accepted, store)
    /\ UNCHANGED <<pc, dto, idx, built, batch, pubMap, resp, result, ledger,
                   requests, saves, input>>

\* DELETE FROM published_records WHERE id
DeletePublishedRecord ==
    /\ \E old \in store :
           /\ store' = store \ {old}
           /\ output' = Statement("delete", old, TRUE, store)
    /\ UNCHANGED <<pc, dto, idx, built, batch, pubMap, resp, result, ledger,
                   requests, saves, input>>

NextPublishedRecords ==
    \/ InsertPublishedRecord
    \/ UpdatePublishedRecord
    \/ DeletePublishedRecord

SpecPublishedRecords == InitPublishedRecords /\ [][NextPublishedRecords]_vars

\* -- URI.create and the URI constructor ---------------------------------------
\* Raw strings: scheme, separator, authority and path put together.  Among
\* them are http://e/r, at://e.d/a.p/r1 (a handle as authority),
\* at://de:p:a/a.p/r1 (a DID as authority) and at://de:p:a/at://a/p/r.
URISchemes == {<<"h", "t", "t", "p">>, <<"a", "t">>, <<"a">>, <<>>}
URISeparators == {<<":">>, <<":", "/">>, <<":", "/", "/">>, <<>>}
URIAuthorities ==
    {<<"e">>, <<"e", ".", "d">>, <<"e", ":", "1">>,
     <<"d", "e", ":", "p", ":", "a">>, <<>>}
URIPaths ==
    {<<>>, <<"/", "r">>, <<"/", "a", ".", "p", "/">>,
     <<"/", "a", ".", "p", "/", "r", "1">>,
     <<"/", "a", ".", "p", "/", "r", "/", "e">>,
     <<"/", "a", "t", ":", "/", "/", "a", "/", "p", "/", "r">>}

URISamples ==
    {scheme \o sep \o authority \o path :
        scheme \in URISchemes, sep \in URISeparators,
        authority \in URIAuthorities, path \in URIPaths}

InitURI ==
    /\ Idle
    /\ input \in URISamples
    /\ output = Undefined

\* URI.create(input), and whether new URI(input) returns
ApplyURICreate ==
    /\ output = Undefined
    /\ output' = [result |-> URICreate(input),
                  constructed |-> URIConstructs(input)]
    /\ UNCHANGED <<ucVars, input>>

NextURI == ApplyURICreate

SpecURI == InitURI /\ [][NextURI]_vars

\* -- Annotation: create, then any operations on the annotation ---------------
MaxOps == 2          \* operations applied to an annotation after create

RequiredProps == {"curatorId", "url", "annotationField", "value"}
OptionalProps == {"annotationTemplateIds", "note", "createdAt",
                  "publishedRecordId"}

\* Props with every property given
FullProps(field, type) ==
    [curatorId |-> [value |-> "did:plc:curator123"],
     url |-> [value |-> WebUrl],
     annotationField |-> field,
     value |-> [type |-> type, payload |-> Payload(type)],
     annotationTemplateIds |-> <<[value |-> "T1"]>>,
     note |-> [value |-> "a note"],
     createdAt |-> [time |-> "earlier"],
     publishedRecordId |-> EarlierRecord]

\* Props with any of the properties absent
AnnotationPropsSet ==
    {[n \in names |-> full[n]] :
        names \in SUBSET (RequiredProps \cup OptionalProps),
        full \in {FullProps(f, t) :
                     f \in {Field("F1", "rating"), Field("F2", "dyad")},
                     t \in Types}}

\* Values an annotation is updated to
NewValues == {[type |-> t, payload |-> [shape |-> t, revised |-> TRUE]] :
                 t \in Types}

InitAnnotation ==
    /\ Idle
    /\ input \in AnnotationPropsSet
    /\ output = Undefined

\* The call made last, its result, and the annotation before and after it
Applied(op, arg, before, r, after, ops) ==
    [op |-> op, arg |-> arg, before |-> before, result |-> r,
     annotation |-> after, ops |-> ops]

ApplyCreate ==
    /\ output = Undefined
    /\ LET r == AnnotationCreate(input, "p1")
       IN  output' = Applied("create", Undefined, Undefined, r,
                             IF r.ok THEN r.value ELSE Undefined, 0)
    /\ UNCHANGED <<ucVars, input>>

CanApply ==
    /\ output # Undefined
    /\ output.annotation # Undefined
    /\ output.ops < MaxOps

ApplyUpdateValue ==
    /\ CanApply
    /\ \E v \in NewValues :
           LET r == updateValue(output.annotation, v)
           IN  output' = Applied("updateValue", v, output.annotation, r[1],
                                 r[2], output.ops + 1)
    /\ UNCHANGED <<ucVars, input>>

ApplyMarkAsPublished ==
    /\ CanApply
    /\ \E p \in PublishedRecordIds :
           output' = Applied("markAsPublished", p, output.annotation,
                             Ok(Undefined),
                             markAsPublished(output.annotation, p),
                             output.ops + 1)
    /\ UNCHANGED <<ucVars, input>>

ApplyUpdatePublishedRecordId ==
    /\ CanApply
    /\ \E p \in PublishedRecordIds :
           output' = Applied("updatePublishedRecordId", p, output.annotation,
                             Ok(Undefined),
                             updatePublishedRecordId(output.annotation, p),
                             output.ops + 1)
    /\ UNCHANGED <<ucVars, input>>

NextAnnotation ==
    \/ ApplyCreate
    \/ ApplyUpdateValue
    \/ ApplyMarkAsPublished
    \/ ApplyUpdatePublishedRecordId

SpecAnnotation == InitAnnotation /\ [][NextAnnotation]_vars

\* -- ATProtoAnnotationsFromTemplatePublisher.unpublish ------------------------
MaxRecords == 3      \* longest list of record identifiers given to unpublish

Repos == {"did:plc:curator123", "did:plc:other"}

\* Identifiers of records of two repositories, in the publisher's collection
\* and in another one, and identifiers whose uri has too few or too many parts
UnpublishRecordIds ==
    {PublishedRecordIdCreate(<<"at:", "", d, c, r>>, "cid-" \o r) :
        d \in Repos, c \in {COLLECTION, "app.bsky.feed.post"}, r \in {"r1", "r2"}}
    \cup {PublishedRecordIdCreate(<<"at:", "", "did:plc:other", COLLECTION>>,
                                  "cid-r1"),
          PublishedRecordIdCreate(<<"at:", "", "did:plc:other", COLLECTION,
                                    "r1", "x">>, "cid-r1")}

\* A record no identifier refers to
Bystander(repo) ==
    [uri |-> <<"at:", "", repo, COLLECTION, "r9">>, cid |-> "cid-r9"]

\* The ledger holds the records the identifiers refer to, and others
InitUnpublish ==
    /\ dto = [k \in Callers |-> IdleRequest]
    /\ built = [k \in Callers |-> <<>>]
    /\ batch = [k \in Callers |-> Undefined]
    /\ pc = [k \in Callers |-> "idle"]
    /\ idx = [k \in Callers |-> 1]
    /\ pubMap = [k \in Callers |-> {}]
    /\ resp = [k \in Callers |-> Undefined]
    /\ result = [k \in Callers |-> Undefined]
    /\ requests = <<>>
    /\ store = {}
    /\ saves = [k \in Callers |-> 0]
    /\ input \in SeqsUpTo(UnpublishRecordIds, MaxRecords)
    /\ ledger = {input[i] : i \in {j \in 1..Len(input) : ~ATUriThrows(input[j].uri)}}
                    \cup {Bystander(d) : d \in Repos}
    /\ output = Undefined

\* The position of the call: the entries of recordsByRepo, what the ledger
\* client answered to the requests sent so far, and the Result once it has
\* returned
Unpublishing(groups, replies, r) ==
    [groups |-> groups, replies |-> replies, sent |-> Len(replies),
     result |-> r]

\* Mutant of the grouping loop: the identifiers before the first one that
\* ATUri rejects are grouped and their requests are sent.
UnpublishGroupPrefix ==
    /\ output = Undefined
    /\ LET bad == {i \in 1..Len(input) : ATUriThrows(input[i].uri)}
           parsed == IF bad = {} THEN input
                     ELSE SubSeq(input, 1,
                              (CHOOSE i \in bad : \A j \in bad : i <= j) - 1)
           groups == recordsByRepo(parsed)
       IN  output' = Unpublishing(groups, <<>>,
                         IF Len(groups) > 0 THEN Undefined
                         ELSE IF bad # {} THEN Err("Error", <<"Invalid AT URI">>)
                         ELSE Ok(Undefined))
    /\ UNCHANGED <<ucVars, input>>

\* The grouping loop; a uri that ATUri rejects throws, which the catch turns
\* into an error.
UnpublishGroup ==
    /\ output = Undefined
    /\ IF \E i \in 1..Len(input) : ATUriThrows(input[i].uri)
       THEN output' = Unpublishing(<<>>, <<>>, Err("Error", <<"Invalid AT URI">>))
       ELSE LET groups == recordsByRepo(input)
            IN  output' = Unpublishing(groups, <<>>,
                              IF Len(groups) = 0 THEN Ok(Undefined)
                              ELSE Undefined)
    /\ UNCHANGED <<ucVars, input>>

\* Mutant of the request loop: a failed request is skipped and the loop goes on.
UnpublishApplyContinues ==
    /\ output # Undefined
    /\ output.result = Undefined
    /\ LET g == output.groups[output.sent + 1]
           writes == deleteWrites(g.records)
           last == output.sent + 1 = Len(output.groups)
       IN  \E reply \in DeleteReplies :
               /\ requests' = Append(requests,
                      [by |-> 0, repo |-> g.repo, writes |-> writes])
               /\ ledger' = IF reply.applied
                            THEN ledger \ DeletedBy(ledger, g.repo, writes)
                            ELSE ledger
               /\ output' = Unpublishing(output.groups, Append(output.replies, reply),
                      IF last THEN (IF reply.threw THEN Err("Error", reply.message)
                                    ELSE Ok(Undefined))
                      ELSE Undefined)
    /\ UNCHANGED <<pc, dto, idx, built, batch, pubMap, resp, result, store,
                   saves, input>>

\* One round of the request loop: the next repository's deletes are sent in
\* one applyWrites call; a call that throws ends unpublish with an error, the
\* last one that resolves ends it with ok.
UnpublishApply ==
    /\ output # Undefined
    /\ output.result = Undefined
    /\ LET g == output.groups[output.sent + 1]
           writes == deleteWrites(g.records)
           last == output.sent + 1 = Len(output.groups)
       IN  \E reply \in DeleteReplies :
               /\ requests' = Append(requests,
                      [by |-> 0, repo |-> g.repo, writes |-> writes])
               /\ ledger' = IF reply.applied
                            THEN ledger \ DeletedBy(ledger, g.repo, writes)
                            ELSE ledger
               /\ output' = Unpublishing(output.groups, Append(output.replies, reply),
                      IF reply.threw THEN Err("Error", reply.message)
                      ELSE IF last THEN Ok(Undefined)
                      ELSE Undefined)
    /\ UNCHANGED <<pc, dto, idx, built, batch, pubMap, resp, result, store,
                   saves, input>>

NextUnpublish == UnpublishGroup \/ UnpublishApply

SpecUnpublish == InitUnpublish /\ [][NextUnpublish]_vars

\* -- The publisher adapter: a call of publish or a call of unpublish ---------
InitPublisher == InitPublish \/ InitUnpublish

NextPublisher ==
    \/ NextPublish
    \/ (\A k \in Callers : pc[k] = "idle") /\ NextUnpublish

SpecPublisher == InitPublisher /\ [][NextPublisher]_vars

(***************************************************************************)
(* Properties of the use case                                              *)
(***************************************************************************)
Returned(k) == pc[k] = "respond"

\* The side effects of invocation k so far
PublishRequestsBy(k) == {i \in 1..Len(requests) : requests[i].by = k}
NoSideEffects(k) == PublishRequestsBy(k) = {} /\ saves[k] = 0

\* What is wrong with a request, read off the request and the stores
ValidUrls == {WebUrl}
InputAt(d, i) == d.annotations[i]
InvalidValueObject(d) ==
    \/ d.curatorId = ""
    \/ d.url \notin ValidUrls
    \/ d.templateId = ""
    \/ \E i \in 1..Len(d.annotations) :
           InputAt(d, i).value.shape # InputAt(d, i).type
TemplateMissing(d) == \A t \in TemplateStore : t.templateId # d.templateId
FieldMissing(d) ==
    \E i \in 1..Len(d.annotations) :
        \A f \in FieldStore : f.fieldId # InputAt(d, i).annotationFieldId
FieldTypeMismatch(d) ==
    \E i \in 1..Len(d.annotations) : \E f \in FieldStore :
        /\ f.fieldId = InputAt(d, i).annotationFieldId
        /\ f.type # InputAt(d, i).type
RequestedFieldIds(d) ==
    [i \in 1..Len(d.annotations) |-> InputAt(d, i).annotationFieldId]
BatchInvariantViolated(d) ==
    \/ \E i, j \in 1..Len(d.annotations) :
           i # j /\ RequestedFieldIds(d)[i] = RequestedFieldIds(d)[j]
    \/ \E t \in TemplateStore :
           /\ t.templateId = d.templateId
           /\ \E e \in Range(t.fields) :
                  e.required /\ e.field.fieldId \notin Range(RequestedFieldIds(d))
Faulty(d) ==
    \/ InvalidValueObject(d)
    \/ TemplateMissing(d)
    \/ FieldMissing(d)
    \/ FieldTypeMismatch(d)
    \/ BatchInvariantViolated(d)

\* C1: a request with an invalid value object, a missing template, a missing
\* field, a value whose type is not its field's, or a batch that violates the
\* template's invariants is answered with an error, and no publish request and
\* no repository save is ever made for it.
C1_FailFastBeforeSideEffects ==
    \A k \in Callers :
        (pc[k] # "idle" /\ Faulty(dto[k])) =>
            /\ NoSideEffects(k)
            /\ Returned(k) => ~result[k].ok

\* C1 witness: the template requires F1 and F2, the request supplies F1 only:
\* the call has failed on the batch invariant.
C1_Witness ==
    /\ Returned(1)
    /\ dto[1].templateId = "T1"
    /\ RequestedFieldIds(dto[1]) = <<"F1">>
    /\ ~result[1].ok
    /\ result[1].kind = "InvariantViolation"
    /\ Contains(result[1].message, "F2")
    /\ NoSideEffects(1)

\* C1 second scenario: a rating field is given a dyad value.
C1_WitnessTypeMismatch ==
    /\ Returned(1)
    /\ Len(dto[1].annotations) = 1
    /\ InputAt(dto[1], 1).annotationFieldId = "F1"
    /\ InputAt(dto[1], 1).type = "dyad"
    /\ ~result[1].ok
    /\ result[1].kind = "TypeMismatch"

\* publisher.publish of invocation k has returned success
PublishSucceeded(k) ==
    /\ pc[k] \in {"mark-published", "persist-each", "respond"}
    /\ resp[k] # Undefined
    /\ ~resp[k].threw
    /\ pubMap[k] # {}

BatchIds(k) == {batch[k].annotations[i].id : i \in 1..Len(batch[k].annotations)}
StoredOf(k) == {a \in store : a.id \in BatchIds(k)}
IsDelete(request) ==
    \E i \in 1..Len(request.writes) :
        request.writes[i].type = "com.atproto.repo.applyWrites#delete"

\* C2: once publish has succeeded, a failure of markAllAnnotationsAsPublished
\* or of a save makes the call return an error (it succeeds only with every
\* annotation stored), the ledger still holds the record of every annotation
\* of the batch, no delete request has been sent, publish was called once and
\* no save was repeated.
C2_NoCompensationAfterPublish ==
    \A k \in Callers :
        (Returned(k) /\ PublishSucceeded(k)) =>
            /\ result[k].ok <=> Cardinality(StoredOf(k)) = Len(batch[k].annotations)
            /\ \A id \in BatchIds(k) :
                   /\ MapHas(pubMap[k], id)
                   /\ MapGet(pubMap[k], id) \in ledger
            /\ \A i \in 1..Len(requests) : ~IsDelete(requests[i])
            /\ Cardinality(PublishRequestsBy(k)) = 1
            /\ saves[k] <= Len(batch[k].annotations)
            /\ ~result[k].ok => saves[k] = Cardinality(StoredOf(k)) + 1

\* C2 witness: two annotations were published, the first was saved, the save of
\* the second failed: the call has returned that failure.
C2_Witness ==
    /\ Returned(1)
    /\ PublishSucceeded(1)
    /\ Len(batch[1].annotations) = 2
    /\ saves[1] = 2
    /\ Cardinality(StoredOf(1)) = 1
    /\ ~result[1].ok
    /\ result[1].kind = "PersistFailure"

(***************************************************************************)
(* Properties of AnnotationsFromTemplate                                   *)
(***************************************************************************)
Called == output # Undefined

\* The number of annotations of the batch that refer to field fieldId
References(annotations, fieldId) ==
    Cardinality({i \in 1..Len(annotations) :
                    annotations[i].annotationField.fieldId = fieldId})

RequiredFieldIds(template) ==
    {e.field.fieldId : e \in {x \in Range(template.fields) : x.required}}

EveryRequiredFieldOnce(in) ==
    \A f \in RequiredFieldIds(in.template) : References(in.annotations, f) = 1

SameCurator(in) ==
    \A i \in 1..Len(in.annotations) : in.annotations[i].curatorId = in.curatorId

NoFieldTwice(in) ==
    \A i \in 1..Len(in.annotations) :
        References(in.annotations, in.annotations[i].annotationField.fieldId) = 1

\* C3, as stated: create succeeds if and only if every required field of the
\* template appears exactly once among the batch's field references and every
\* annotation's curatorId is the batch's.
C3_Original ==
    Called => (output.result.ok <=> (EveryRequiredFieldOnce(input) /\ SameCurator(input)))

\* C3, amended: create succeeds if and only if every required field of the
\* template appears exactly once among the batch's field references, no field
\* (required, optional or outside the template) is referred to by two
\* annotations, and every annotation's curatorId is the batch's.
C3_CreateSucceedsIff ==
    Called =>
        (output.result.ok <=>
            (EveryRequiredFieldOnce(input) /\ NoFieldTwice(input) /\ SameCurator(input)))

\* C3 witness: create has rejected a batch that covers every required field
\* once with annotations of the batch's curator, because an optional field is
\* referred to twice.
C3_Witness ==
    /\ Called
    /\ ~output.result.ok
    /\ EveryRequiredFieldOnce(input)
    /\ SameCurator(input)
    /\ ~NoFieldTwice(input)

\* C3 witness of the other direction: a batch that was accepted.
C3_WitnessAccepted ==
    /\ Called
    /\ output.result.ok
    /\ Len(input.annotations) = 2
    /\ RequiredFieldIds(input.template) # {}

\* C4: markAllAnnotationsAsPublished is all-or-nothing: when the map lacks the
\* id of an annotation of the batch the call fails and every annotation keeps
\* the publishedRecordId it had; when the map has every id the call succeeds
\* and every annotation's publishedRecordId is the map's entry for its id.
C4_MarkAllOrNothing ==
    Called =>
        LET before == input.aggregate.annotations
            after == output.after.annotations
            map == input.idsByAnnotationId
        IN  /\ Len(after) = Len(before)
            /\ IF \E i \in 1..Len(before) : before[i].id \notin MapKeys(map)
               THEN /\ ~output.result.ok
                    /\ \A i \in 1..Len(before) :
                           after[i].publishedRecordId = before[i].publishedRecordId
               ELSE /\ output.result.ok
                    /\ \A i \in 1..Len(before) :
                           <<before[i].id, after[i].publishedRecordId>> \in map

\* C4 witnesses: a map that has the first annotation's id and lacks the
\* second's left both as they were; a complete map marked two annotations, one
\* of which had been published before.
C4_Witness ==
    /\ Called
    /\ Len(input.aggregate.annotations) = 2
    /\ "p1" \in MapKeys(input.idsByAnnotationId)
    /\ "p2" \notin MapKeys(input.idsByAnnotationId)
    /\ ~output.result.ok
    /\ output.after = input.aggregate

C4_WitnessMarked ==
    /\ Called
    /\ Len(input.aggregate.annotations) = 2
    /\ input.aggregate.annotations[1].publishedRecordId = EarlierRecord
    /\ output.result.ok
    /\ output.after.annotations[1].publishedRecordId # EarlierRecord

(***************************************************************************)
(* Properties of the publisher adapter                                     *)
(***************************************************************************)
PublishReturned(k) == pc[k] \in {"mark-published", "persist-each", "respond"}
PublishReturnedOk(k) == PublishReturned(k) /\ pubMap[k] # {}
PublishReturnedErr(k) ==
    /\ pc[k] = "respond"
    /\ pubMap[k] = {}
    /\ ~result[k].ok
    /\ result[k].kind = "PublishFailure"

\* The results of the ledger's response to invocation k ([] when absent)
ResultsOf(k) ==
    IF "results" \in DOMAIN resp[k].data THEN resp[k].data.results ELSE <<>>

\* C5: a successful publish of N annotations returns exactly N identifiers,
\* and the one mapped to the i-th annotation's id is the (uri, cid) of the
\* i-th result of the ledger's response.
C5_PublishAligned ==
    \A k \in Callers :
        PublishReturnedOk(k) =>
            LET annotations == batch[k].annotations
            IN  /\ Cardinality(pubMap[k]) = Len(annotations)
                /\ MapKeys(pubMap[k]) = BatchIds(k)
                /\ \A i \in 1..Len(annotations) :
                       <<annotations[i].id,
                         [uri |-> ResultsOf(k)[i].uri,
                          cid |-> ResultsOf(k)[i].cid]>> \in pubMap[k]

\* C5 witness: at least two annotations were published and the second one's
\* identifier is the second result's, which is not the first result's.
C5_Witness ==
    /\ PublishReturnedOk(1)
    /\ Len(batch[1].annotations) >= 2
    /\ Cardinality(pubMap[1]) = Len(batch[1].annotations)
    /\ MapGet(pubMap[1], batch[1].annotations[2].id).uri = ResultsOf(1)[2].uri
    /\ ResultsOf(1)[2].uri # ResultsOf(1)[1].uri

\* The write requests invocation k has sent
RequestsBy(k) == SelectSeq(requests, LAMBDA request : request.by = k)

\* The request is the batch's: the curator's identity as repository and one
\* create operation per annotation, in batch order
IsBatchRequest(request, aggregate) ==
    /\ request.repo = aggregate.curatorId.value
    /\ Len(request.writes) = Len(aggregate.annotations)
    /\ \A i \in 1..Len(aggregate.annotations) :
           /\ request.writes[i].type = "com.atproto.repo.applyWrites#create"
           /\ request.writes[i].collection = COLLECTION
           /\ request.writes[i].value = aggregate.annotations[i].value

\* C23 as stated: every call of publish sends exactly one write request, with
\* the batch curator's identity as repository and one create operation per
\* annotation in batch order.
C23_Original ==
    \A k \in Callers :
        PublishReturned(k) =>
            /\ Len(RequestsBy(k)) = 1
            /\ IsBatchRequest(RequestsBy(k)[1], batch[k])

\* C23: a call of publish for a batch with at least one annotation sends
\* exactly one write request, with the batch curator's identity as repository
\* and one create operation per annotation in batch order, whatever the
\* ledger answers; for a batch without annotations it sends none and fails.
C23_OneWriteRequest ==
    \A k \in Callers :
        /\ Len(RequestsBy(k)) <= 1
        /\ PublishReturned(k) =>
               IF Len(batch[k].annotations) = 0
               THEN Len(RequestsBy(k)) = 0 /\ PublishReturnedErr(k)
               ELSE /\ Len(RequestsBy(k)) = 1
                    /\ IsBatchRequest(RequestsBy(k)[1], batch[k])

\* Two annotations sent in one request that the ledger made throw
C23_Witness ==
    /\ PublishReturnedErr(1)
    /\ Len(batch[1].annotations) = 2
    /\ Len(RequestsBy(1)) = 1
    /\ Len(RequestsBy(1)[1].writes) = 2
    /\ resp[1].threw

\* A batch without annotations
C23_WitnessEmptyBatch ==
    /\ PublishReturnedErr(1)
    /\ Len(batch[1].annotations) = 0
    /\ requests = <<>>

\* C31: publish of a batch without annotations returns the error 'No curator
\* DID found in annotations' and sends nothing to the ledger; a write request
\* is only ever sent with the curator identity of the batch's first
\* annotation, which is not empty, as its repository.
C31_NoRequestWithoutCurator ==
    \A k \in Callers :
        /\ (PublishReturned(k) /\ Len(batch[k].annotations) = 0) =>
               /\ Len(RequestsBy(k)) = 0
               /\ PublishReturnedErr(k)
               /\ result[k].message = <<"No curator DID found in annotations">>
               /\ resp[k] = Undefined
               /\ ledger = {}
        /\ \A n \in 1..Len(RequestsBy(k)) :
               /\ Len(batch[k].annotations) > 0
               /\ RequestsBy(k)[n].repo # ""
               /\ RequestsBy(k)[n].repo = batch[k].annotations[1].curatorId.value

\* publish has returned for a batch without annotations
C31_Witness ==
    /\ pc[1] = "respond"
    /\ Len(batch[1].annotations) = 0
    /\ ~result[1].ok
    /\ result[1].message = <<"No curator DID found in annotations">>
    /\ Len(requests) = 0
    /\ resp[1] = Undefined

\* A request went out under the curator of the first of two annotations
C31_WitnessCuratorObtained ==
    /\ Len(batch[1].annotations) = 2
    /\ Len(RequestsBy(1)) = 1
    /\ RequestsBy(1)[1].repo = batch[1].annotations[1].curatorId.value
    /\ PublishReturnedOk(1)

\* C6: publish fails, returning no mapping, whenever the response's number of
\* results differs from the number of annotations (fewer or more) or some
\* result is not a create confirmation.
C6_FailsOnAnyMismatch ==
    \A k \in Callers :
        (/\ PublishReturned(k)
         /\ resp[k] # Undefined
         /\ ~resp[k].threw
         /\ \/ Len(ResultsOf(k)) # Len(batch[k].annotations)
            \/ \E i \in 1..Len(ResultsOf(k)) :
                   ResultsOf(k)[i].type # CreateResultType)
        => PublishReturnedErr(k)

\* The part of C6 the code does enforce: too few results, or a result for one
\* of the annotations that is not a create confirmation, fail the call.
C6_FailsOnShortOrNonCreate ==
    \A k \in Callers :
        (/\ PublishReturned(k)
         /\ resp[k] # Undefined
         /\ ~resp[k].threw
         /\ \/ Len(ResultsOf(k)) < Len(batch[k].annotations)
            \/ \E i \in 1..Len(batch[k].annotations) :
                   /\ i <= Len(ResultsOf(k))
                   /\ ResultsOf(k)[i].type # CreateResultType)
        => PublishReturnedErr(k)

\* The ledger's reply to invocation k is a failure: the call was rejected, or
\* the response does not confirm a create for every annotation.
ReplyFailed(k) ==
    /\ resp[k] # Undefined
    /\ \/ resp[k].threw
       \/ \E i \in 1..Len(batch[k].annotations) :
              \/ i > Len(ResultsOf(k))
              \/ ResultsOf(k)[i].type # CreateResultType

\* C7: on a transport or validation failure publish returns a failure that
\* carries the underlying cause and no mapping, not even a partial one, and no
\* annotation of the batch gets a publishedRecordId or is stored.
C7_FailureCarriesCauseAndNothingPublished ==
    \A k \in Callers :
        ReplyFailed(k) =>
            /\ PublishReturnedErr(k)
            /\ resp[k].threw => result[k].message = resp[k].message
            /\ \A i \in 1..Len(batch[k].annotations) :
                   batch[k].annotations[i].publishedRecordId = Undefined
            /\ StoredOf(k) = {}
            /\ saves[k] = 0

\* C7 witnesses: the ledger client threw and the call returned its message;
\* the response had a result for the first of two annotations only and
\* nothing was mapped.
C7_Witness ==
    /\ ReplyFailed(1)
    /\ resp[1].threw
    /\ Returned(1)
    /\ result[1].message = <<"fetch failed">>
    /\ Len(batch[1].annotations) = 2

C7_WitnessShortResponse ==
    /\ ReplyFailed(1)
    /\ ~resp[1].threw
    /\ Len(batch[1].annotations) = 2
    /\ Len(ResultsOf(1)) = 1
    /\ Returned(1)
    /\ pubMap[1] = {}

\* The records of the batch of invocation k that the ledger holds
BatchRecordsHeld(k) ==
    {record \in ledger :
        \E i \in 1..Len(batch[k].annotations) :
            record = RecordOf(batch[k].annotations[1].curatorId.value,
                         toCreateOperations(batch[k].annotations, COLLECTION)[i])}

\* C29: publish returns a failure only if the ledger holds none of the
\* batch's records; in no outcome has the ledger applied the batch's writes
\* while publish reports a failure.
C29_FailureMeansNothingApplied ==
    \A k \in Callers :
        PublishReturnedErr(k) =>
            /\ BatchRecordsHeld(k) = {}
            /\ resp[k] # Undefined => ~resp[k].applied

\* Of C29 the code keeps this much: a failure after a call that was rejected
\* before the ledger applied it leaves the ledger without the batch's records.
C29_RejectedLeavesNothing ==
    \A k \in Callers :
        (PublishReturnedErr(k) /\ resp[k] # Undefined /\ ~resp[k].applied)
            => BatchRecordsHeld(k) = {}

(***************************************************************************)
(* Properties of a successful run, and of a missing template               *)
(***************************************************************************)
Succeeded(k) == Returned(k) /\ result[k].ok

\* The annotation stored under id, Undefined when there is none
StoredById(id) ==
    IF \E a \in store : a.id = id THEN CHOOSE a \in store : a.id = id
    ELSE Undefined

\* The identifier the ledger's response gave the i-th write of invocation k
LedgerIdOf(k, i) == [uri |-> ResultsOf(k)[i].uri, cid |-> ResultsOf(k)[i].cid]

\* C8: when the use case succeeds its output lists one annotation id per input
\* annotation, in input order, and every listed annotation bears a
\* published-record identifier and is found in the store by that identifier.
C8_SuccessOutput ==
    \A k \in Callers :
        Succeeded(k) =>
            LET ids == result[k].value.annotationIds
            IN  /\ Len(ids) = Len(dto[k].annotations)
                /\ \A i, j \in 1..Len(ids) : i # j => ids[i] # ids[j]
                /\ \A i \in 1..Len(ids) :
                       LET a == StoredById(ids[i])
                       IN  /\ a # Undefined
                           /\ a.annotationField.fieldId
                                  = InputAt(dto[k], i).annotationFieldId
                           /\ a.value.type = InputAt(dto[k], i).type
                           /\ a.publishedRecordId # Undefined
                           /\ FindByPublishedRecordId(store, a.publishedRecordId) = a

\* C8 witness (happy path): the template requires a rating field and a dyad
\* field, the request supplies both, the call returned two ids.
C8_Witness ==
    /\ Succeeded(1)
    /\ dto[1].templateId = "T1"
    /\ RequestedFieldIds(dto[1]) = <<"F1", "F2">>
    /\ Len(result[1].value.annotationIds) = 2
    /\ Cardinality(store) = 2

\* C9: after a successful run, looking an annotation up by the identifier the
\* ledger gave its record returns an entity with the request's curatorId and
\* url, and whose template ids are exactly the request's templateId.
C9_RoundTrip ==
    \A k \in Callers :
        Succeeded(k) =>
            \A i \in 1..Len(dto[k].annotations) :
                LET a == FindByPublishedRecordId(store, LedgerIdOf(k, i))
                IN  /\ a # Undefined
                    /\ a.id = result[k].value.annotationIds[i]
                    /\ a.curatorId.value = dto[k].curatorId
                    /\ a.url.value = dto[k].url
                    /\ Len(a.annotationTemplateIds) = 1
                    /\ a.annotationTemplateIds[1].value = dto[k].templateId

\* C9 witness: a run with two annotations has succeeded and the second one is
\* found by the identifier of the ledger's second result.
C9_Witness ==
    /\ Succeeded(1)
    /\ Len(dto[1].annotations) = 2
    /\ FindByPublishedRecordId(store, LedgerIdOf(1, 2)) # Undefined
    /\ FindByPublishedRecordId(store, LedgerIdOf(1, 2)).annotationTemplateIds
           = <<[value |-> dto[1].templateId]>>

IsNotFound(r) ==
    ~r.ok /\ r.kind = "NotFound" /\ Contains(r.message, "not found")

\* C10, as stated: when the templateId does not resolve in the template store
\* the use case returns a NotFound error whose message contains "not found",
\* whatever the other inputs are, and neither publishes nor persists.  (Read
\* in the claim's favour: the templateId is well formed and no collaborator
\* throws.)
C10_Original ==
    \A k \in Callers :
        (/\ Returned(k)
         /\ TemplateMissing(dto[k])
         /\ dto[k].templateId # ""
         /\ result[k].kind # "Unexpected") =>
            IsNotFound(result[k]) /\ NoSideEffects(k)

\* C10, amended: when curatorId, url and templateId are valid and the
\* templateId does not resolve in the template store, the use case returns a
\* NotFound error whose message contains "not found", whatever the annotation
\* inputs are (unless the lookup itself throws, which is returned as an
\* Unexpected error); in every case of a missing template, invalid inputs
\* included, it returns an error and neither publishes nor persists.
C10_MissingTemplateNotFound ==
    \A k \in Callers :
        (Returned(k) /\ TemplateMissing(dto[k])) =>
            /\ ~result[k].ok
            /\ NoSideEffects(k)
            /\ (/\ dto[k].curatorId # ""
                /\ dto[k].url \in ValidUrls
                /\ dto[k].templateId # ""
                /\ result[k].kind # "Unexpected") => IsNotFound(result[k])

\* C10 witness: valid inputs, two annotation inputs, no such template: the
\* call has returned NotFound.
C10_Witness ==
    /\ Returned(1)
    /\ dto[1].templateId = "T9"
    /\ Len(dto[1].annotations) = 2
    /\ IsNotFound(result[1])
    /\ NoSideEffects(1)

\* Two annotations of the batch refer to the same field
SomeFieldTwice(annotations) ==
    \E i, j \in 1..Len(annotations) :
        i < j /\ annotations[i].annotationField.fieldId
                     = annotations[j].annotationField.fieldId

\* C17: AnnotationsFromTemplate.create fails for every batch in which two
\* annotations refer to the same field, be the field required, optional or not
\* on the template; the annotations of a batch it returns refer to pairwise
\* different fields.
C17_DuplicateFieldRejected ==
    Called =>
        /\ SomeFieldTwice(input.annotations) => ~output.result.ok
        /\ output.result.ok =>
               /\ output.result.value.annotations = input.annotations
               /\ ~SomeFieldTwice(output.result.value.annotations)

\* A required field referred to twice by annotations of the batch's curator
C17_Witness ==
    /\ Called
    /\ SameCurator(input)
    /\ \E f \in RequiredFieldIds(input.template) :
           References(input.annotations, f) = 2
    /\ ~output.result.ok
    /\ output.result.message = <<"Duplicate annotation field">>

\* A field that is not on the template referred to twice
C17_WitnessOutsideTemplate ==
    /\ Called
    /\ SameCurator(input)
    /\ References(input.annotations, "F3") = 2
    /\ ~output.result.ok

\* The steps of the use case in the order of the pipeline
StepOrder ==
    <<"idle", "validate-inputs", "load-template", "per-input", "assemble-batch",
      "publish", "mark-published", "persist-each", "respond">>
Rank(step) == CHOOSE i \in 1..Len(StepOrder) : StepOrder[i] = step
LoopSteps == {"per-input", "persist-each"}

\* The annotations invocation k has built or assembled so far
AnnotationsOf(k) ==
    Range(built[k])
        \cup (IF batch[k] = Undefined THEN {} ELSE Range(batch[k].annotations))

MarkedAll(k) ==
    /\ batch[k] # Undefined
    /\ \A a \in Range(batch[k].annotations) :
           /\ MapHas(pubMap[k], a.id)
           /\ a.publishedRecordId = MapGet(pubMap[k], a.id)

\* publish is called at most once and not before its step; an annotation is
\* marked only after publish succeeded; one is saved only after all were
\* marked, and is stored with its publishedRecordId.
OrderedEffects(k) ==
    /\ Cardinality(PublishRequestsBy(k)) <= 1
    /\ Rank(pc[k]) <= Rank("publish") => NoSideEffects(k)
    /\ (\E a \in AnnotationsOf(k) : a.publishedRecordId # Undefined) =>
           /\ PublishSucceeded(k)
           /\ pc[k] \in {"persist-each", "respond"}
           /\ MarkedAll(k)
    /\ saves[k] > 0 =>
           /\ PublishSucceeded(k)
           /\ MarkedAll(k)
           /\ \A a \in StoredOf(k) :
                  /\ a.publishedRecordId # Undefined
                  /\ a.publishedRecordId = MapGet(pubMap[k], a.id)

\* A step goes forward in the pipeline, or stays in one of its two loops
Forward(k) ==
    \/ Rank(pc[k]) < Rank(pc'[k])
    \/ pc'[k] = pc[k] /\ pc[k] \in LoopSteps
    \/ UNCHANGED <<pc[k], idx[k], built[k], batch[k], pubMap[k], resp[k],
                   result[k], saves[k]>>

\* C18: every run of the use case goes through validate-inputs, load-template,
\* per-input, assemble-batch, publish, mark-published, persist-each and
\* respond in this order without returning to an earlier step; publish is
\* called at most once, no annotation is marked before publish has succeeded,
\* none is saved before all are marked, and every saved annotation has its
\* publishedRecordId.
C18_LinearPipeline ==
    /\ [](\A k \in Callers : OrderedEffects(k))
    /\ [][\A k \in Callers : Forward(k)]_vars

\* Both annotations of a batch were marked and saved, in this order
C18_Witness ==
    /\ Succeeded(1)
    /\ Len(batch[1].annotations) = 2
    /\ saves[1] = 2
    /\ Cardinality(PublishRequestsBy(1)) = 1
    /\ \A a \in StoredOf(1) : a.publishedRecordId # Undefined
    /\ Cardinality(StoredOf(1)) = 2

\* The kinds of error the use case distinguishes
ErrorKinds ==
    {"Validation", "NotFound", "TypeMismatch", "InvariantViolation",
     "PublishFailure", "PersistFailure", "Unexpected"}

\* The output of a successful call, or an error of one of the kinds
IsOutput(r) ==
    /\ r # Undefined
    /\ IF r.ok
       THEN DOMAIN r.value = {"annotationIds"}
       ELSE r.kind \in ErrorKinds /\ Len(r.message) > 0

\* C19: whatever the request and whatever a collaborator does (a lookup that
\* finds nothing or throws, a publish that fails, a save that fails or
\* throws), a call that has ended has returned the success output or an error
\* of one of the kinds, never an exception; a call that has not ended is at
\* one of the steps and has returned nothing.
C19_NoExceptionEscapes ==
    \A k \in Callers :
        /\ Returned(k) => IsOutput(result[k])
        /\ ~Returned(k) => result[k] = Undefined
        /\ pc[k] \in Range(StepOrder)

\* A store that throws on save, after the batch was published
C19_Witness ==
    /\ Returned(1)
    /\ saves[1] = 2
    /\ PublishSucceeded(1)
    /\ result[1].kind = "Unexpected"
    /\ IsOutput(result[1])

\* A template store that throws
C19_WitnessLookupThrows ==
    /\ Returned(1)
    /\ NoSideEffects(1)
    /\ ~result[1].ok
    /\ result[1].message = <<"template store unavailable">>
    /\ IsOutput(result[1])

\* The required fields of the template that no annotation refers to
UncoveredRequired(in) ==
    {f \in RequiredFieldIds(in.template) : References(in.annotations, f) = 0}

CuratorFailure == <<"All annotations must have the same curator as the batch">>
DuplicateFailure == <<"Duplicate annotation field">>

\* C25: AnnotationsFromTemplate.create reports the first violated check in the
\* order curator equality, duplicate field, required-field coverage, and a
\* missing-required-field failure names every missing required field and no
\* other.
C25_FirstViolatedCheckReported ==
    Called =>
        IF ~SameCurator(input)
        THEN ~output.result.ok /\ output.result.message = CuratorFailure
        ELSE IF SomeFieldTwice(input.annotations)
        THEN ~output.result.ok /\ output.result.message = DuplicateFailure
        ELSE IF UncoveredRequired(input) # {}
        THEN /\ ~output.result.ok
             /\ output.result.message \notin {CuratorFailure, DuplicateFailure}
             /\ \A f \in RequiredFieldIds(input.template) \cup {"F3"} :
                    Contains(output.result.message, f)
                        <=> f \in UncoveredRequired(input)
        ELSE output.result.ok

\* A batch that violates all three checks
C25_Witness ==
    /\ Called
    /\ ~SameCurator(input)
    /\ SomeFieldTwice(input.annotations)
    /\ UncoveredRequired(input) # {}
    /\ output.result.message = CuratorFailure

\* Duplicates and missing fields, one curator
C25_WitnessDuplicateBeforeCoverage ==
    /\ Called
    /\ SameCurator(input)
    /\ SomeFieldTwice(input.annotations)
    /\ UncoveredRequired(input) # {}
    /\ output.result.message = DuplicateFailure

\* Two required fields are missing and both are named
C25_WitnessAllMissingNamed ==
    /\ Called
    /\ Cardinality(UncoveredRequired(input)) = 2
    /\ Len(input.annotations) = 1
    /\ SameCurator(input)
    /\ \A f \in UncoveredRequired(input) : Contains(output.result.message, f)

(***************************************************************************)
(* Properties of URI.create                                                *)
(***************************************************************************)
\* value is a ledger URI at://authority/collection-name/record-key: the
\* ledger's scheme, "://" and three non-empty parts separated by "/"
IsLedgerURI(value) ==
    /\ StartsWith(value, <<"a", "t", ":", "/", "/">>)
    /\ LET rest == Tail2(value, 5)
           slashes == {i \in 1..Len(rest) : rest[i] = "/"}
       IN  /\ Cardinality(slashes) = 2
           /\ \A i \in slashes : i > 1 /\ i < Len(rest)
           /\ \A i, j \in slashes : i # j => (i - j > 1 \/ j - i > 1)

\* C20: URI.create returns a URI when the input is an absolute URL or a
\* ledger-style URI scheme://authority/collection-name/record-key, a failure
\* for every other input, and succeeds exactly when the constructor accepts.
C20_AcceptsUrlsAndLedgerUris ==
    Called =>
        /\ output.result.ok <=> (ParsesAsURL(input) \/ IsLedgerURI(input))
        /\ output.result.ok <=> output.constructed

\* What holds of URI.create: it succeeds exactly when the constructor accepts
\* the input, accepts every absolute URL, and every failure is a format error.
C20_CreateAgreesWithConstructor ==
    Called =>
        /\ output.result.ok <=> output.constructed
        /\ ParsesAsURL(input) => output.result.ok
        /\ ~output.result.ok =>
               output.result.message \in {<<"Invalid AT URI format">>,
                                          <<"Invalid URI format">>}

\* A ledger URI whose authority is a DID is refused
C20_LedgerUriWithDidRefused ==
    /\ Called
    /\ IsLedgerURI(input)
    /\ StartsWith(input, <<"a", "t", ":", "/", "/", "d", "e", ":">>)
    /\ output.result = Err("Error", <<"Invalid AT URI format">>)

(***************************************************************************)
(* Properties of the Annotation aggregate                                  *)
(***************************************************************************)
Created == output # Undefined /\ output.op = "create"
Operated(op) == output # Undefined /\ output.op = op

AbsentProps(props) == {n \in RequiredProps : Prop(props, n) = Undefined}
AllPresent(props) == AbsentProps(props) = {}

\* The value and the field are given and their type tags differ
TypesDiffer(props) ==
    /\ Prop(props, "value") # Undefined
    /\ Prop(props, "annotationField") # Undefined
    /\ props.value.type # props.annotationField.type

TypeMessage == <<"Value does not match field type">>

\* C11 as stated: Annotation.create fails if and only if the value's type tag
\* differs from the type tag of its field.
C11_Original ==
    Created => (~output.result.ok <=> TypesDiffer(input))

\* C11: when curatorId, url, annotationField and value are all given,
\* Annotation.create fails if and only if the value's type tag differs from
\* the type tag of its field, and then with the type-mismatch message; with
\* one of the four absent it fails whatever the type tags are.
C11_FailsIffTypeDiffersWhenPresent ==
    Created =>
        /\ AllPresent(input) =>
               /\ ~output.result.ok <=> TypesDiffer(input)
               /\ ~output.result.ok => output.result.message = TypeMessage
        /\ ~AllPresent(input) => ~output.result.ok

C11_Witness ==
    /\ Created
    /\ AllPresent(input)
    /\ TypesDiffer(input)
    /\ ~output.result.ok

C11_WitnessAbsent ==
    /\ Created
    /\ ~AllPresent(input)
    /\ ~TypesDiffer(input)
    /\ ~output.result.ok

\* The first of the required arguments, in the order create lists them, that
\* props does not give
GuardOrder == <<"curatorId", "url", "annotationField", "value">>
FirstAbsent(props) ==
    GuardOrder[CHOOSE i \in 1..Len(GuardOrder) :
        /\ GuardOrder[i] \in AbsentProps(props)
        /\ \A j \in 1..(i - 1) : GuardOrder[j] \notin AbsentProps(props)]

\* C12: Annotation.create with curatorId, url, annotationField or value absent
\* fails with a missing-argument error that names the first absent one in
\* that order and no other, also when the type tags differ; with all four
\* given it never fails with a missing-argument error.
C12_FirstAbsentArgumentNamed ==
    Created =>
        /\ ~AllPresent(input) =>
               /\ ~output.result.ok
               /\ output.result.message # TypeMessage
               /\ \A n \in RequiredProps :
                      Contains(output.result.message, n)
                          <=> n = FirstAbsent(input)
        /\ AllPresent(input) =>
               \A n \in RequiredProps : output.result.ok
                   \/ ~Contains(output.result.message, n)

\* url is absent, and the value given does not match the field given
C12_Witness ==
    /\ Created
    /\ AbsentProps(input) = {"url"}
    /\ TypesDiffer(input)
    /\ Contains(output.result.message, "url")

C12_WitnessSeveralAbsent ==
    /\ Created
    /\ AbsentProps(input) = {"url", "value"}
    /\ Contains(output.result.message, "url")

\* C13: updateValue with a value of another type fails with InvalidValueType
\* and leaves the annotation as it was; with a value of the same type it
\* succeeds, the value is the new one and every other property is as before.
C13_UpdateValueFrame ==
    Operated("updateValue") =>
        IF output.arg.type # output.before.value.type
        THEN /\ ~output.result.ok
             /\ output.result.kind = "InvalidValueTypeError"
             /\ output.annotation = output.before
        ELSE /\ output.result.ok
             /\ output.annotation.value = output.arg
             /\ \A n \in DOMAIN output.before \ {"value"} :
                    output.annotation[n] = output.before[n]
             /\ DOMAIN output.annotation = DOMAIN output.before

C13_Witness ==
    /\ Operated("updateValue")
    /\ output.arg.type # output.before.value.type
    /\ ~output.result.ok
    /\ output.before.publishedRecordId # Undefined

C13_WitnessReplaced ==
    /\ Operated("updateValue")
    /\ output.result.ok
    /\ output.annotation.value # output.before.value
    /\ output.before.note # Undefined

Marking == {"markAsPublished", "updatePublishedRecordId"}

\* C14 as stated: once an annotation has a publishedRecordId, no operation
\* changes it or removes it.
C14_Original ==
    (output # Undefined /\ output.op # "create") =>
        (output.before.publishedRecordId # Undefined =>
            output.annotation.publishedRecordId
                = output.before.publishedRecordId)

\* C14: a created annotation has the publishedRecordId its props gave, none
\* when they gave none; afterwards only markAsPublished and
\* updatePublishedRecordId change it, each sets it to its argument whether or
\* not one was set before, and no operation makes it undefined again.
C14_PublicationReplacedOnlyByMarking ==
    /\ (Created /\ output.result.ok) =>
           output.annotation.publishedRecordId
               = Prop(input, "publishedRecordId")
    /\ (output # Undefined /\ output.op # "create") =>
           /\ output.before.publishedRecordId # Undefined =>
                  output.annotation.publishedRecordId # Undefined
           /\ output.op \in Marking =>
                  output.annotation.publishedRecordId = output.arg
           /\ output.op \notin Marking =>
                  output.annotation.publishedRecordId
                      = output.before.publishedRecordId

\* An identifier set by markAsPublished is replaced by another one
C14_Witness ==
    /\ output # Undefined
    /\ output.op \in Marking
    /\ output.ops = 2
    /\ "publishedRecordId" \notin DOMAIN input
    /\ output.before.publishedRecordId # Undefined
    /\ output.annotation.publishedRecordId # output.before.publishedRecordId

C14_WitnessKept ==
    /\ Operated("updateValue")
    /\ output.result.ok
    /\ output.before.publishedRecordId # Undefined

\* C21: the annotation a successful Annotation.create returns has the
\* template ids given, or none when none are given; the createdAt given, or
\* the current time when none is given; and the curatorId, url,
\* annotationField, value, note and publishedRecordId given, the last two
\* undefined when not given.
C21_CreateDefaults ==
    (Created /\ output.result.ok) =>
        LET a == output.result.value
        IN  /\ a.annotationTemplateIds =
                   (IF "annotationTemplateIds" \in DOMAIN input
                    THEN input.annotationTemplateIds ELSE <<>>)
            /\ a.createdAt = (IF "createdAt" \in DOMAIN input
                              THEN input.createdAt ELSE Now)
            /\ a.curatorId = input.curatorId
            /\ a.url = input.url
            /\ a.annotationField = input.annotationField
            /\ a.value = input.value
            /\ a.note = Prop(input, "note")
            /\ a.publishedRecordId = Prop(input, "publishedRecordId")

\* Only the required properties are given
C21_Witness ==
    /\ Created
    /\ output.result.ok
    /\ DOMAIN input = RequiredProps
    /\ output.result.value.annotationTemplateIds = <<>>
    /\ output.result.value.createdAt = Now
    /\ output.result.value.publishedRecordId = Undefined

\* Every property is given
C21_WitnessAllGiven ==
    /\ Created
    /\ output.result.ok
    /\ DOMAIN input = RequiredProps \cup OptionalProps
    /\ Len(output.result.value.annotationTemplateIds) = 1
    /\ output.result.value.createdAt # Now

\* C24: after a successful create and any calls of updateValue, markAsPublished
\* and updatePublishedRecordId, failed ones included, the type of the
\* annotation's value is the type its field declares.
C24_ValueMatchesField ==
    (output # Undefined /\ output.annotation # Undefined) =>
        /\ output.annotation.value.type = output.annotation.annotationField.type
        /\ output.annotation.annotationField = input.annotationField

\* The value was replaced, then a value of the other type was refused
C24_Witness ==
    /\ Operated("updateValue")
    /\ output.ops = 2
    /\ ~output.result.ok
    /\ output.arg.type # output.annotation.annotationField.type
    /\ output.annotation.value \in NewValues

\* C26: markAsPublished(p) leaves the annotation with publishedRecordId p
\* whatever it was before, published or not, and with every other property as
\* before; a second call with the same p changes nothing.
C26_MarkAsPublishedUnconditional ==
    Operated("markAsPublished") =>
        /\ output.result.ok
        /\ output.annotation.publishedRecordId = output.arg
        /\ DOMAIN output.annotation = DOMAIN output.before
        /\ \A n \in DOMAIN output.before \ {"publishedRecordId"} :
               output.annotation[n] = output.before[n]
        /\ markAsPublished(output.annotation, output.arg) = output.annotation
        /\ output.before.publishedRecordId = output.arg =>
               output.annotation = output.before

\* An annotation published under one identifier is marked with another
C26_Witness ==
    /\ Operated("markAsPublished")
    /\ output.before.publishedRecordId # Undefined
    /\ output.before.publishedRecordId # output.arg
    /\ output.annotation.publishedRecordId = output.arg

\* The same identifier is given a second time
C26_WitnessTwice ==
    /\ Operated("markAsPublished")
    /\ output.ops = 2
    /\ "publishedRecordId" \notin DOMAIN input
    /\ output.before.publishedRecordId = output.arg
    /\ output.annotation = output.before

(***************************************************************************)
(* Properties of unpublish                                                 *)
(***************************************************************************)
UnpublishReturned == output # Undefined /\ output.result # Undefined
UnpublishOk == UnpublishReturned /\ output.result.ok
UnpublishErr == UnpublishReturned /\ ~output.result.ok

\* The repository named in the i-th identifier's uri (its third part)
OwnerOf(i) == input[i].uri[3]
Owners == {OwnerOf(i) : i \in 1..Len(input)}
KeysOf(repo) ==
    LET own == Ascending({i \in 1..Len(input) : OwnerOf(i) = repo})
    IN  [i \in 1..Len(own) |-> input[own[i]].uri[5]]

RECURSIVE DeleteCount(_)
DeleteCount(reqs) ==
    IF Len(reqs) = 0 THEN 0
    ELSE Len(Head(reqs).writes) + DeleteCount(Tail(reqs))

\* C15: when unpublish returns ok, it has sent exactly one request per
\* repository named in the input; the request of a repository holds one
\* delete per input identifier of that repository, duplicates included, with
\* that identifier's record key, and nothing else; the deletes add up to the
\* number of identifiers.  With no identifier it returns ok without a request.
C15_OneDeleteRequestPerRepository ==
    /\ UnpublishOk =>
           /\ Len(requests) = Cardinality(Owners)
           /\ \A i, j \in 1..Len(requests) :
                  i # j => requests[i].repo # requests[j].repo
           /\ \A i \in 1..Len(requests) :
                  /\ requests[i].repo \in Owners
                  /\ Len(requests[i].writes) = Len(KeysOf(requests[i].repo))
                  /\ \A w \in 1..Len(requests[i].writes) :
                         /\ requests[i].writes[w].type = DeleteType
                         /\ requests[i].writes[w].rkey
                                = KeysOf(requests[i].repo)[w]
           /\ DeleteCount(requests) = Len(input)
    /\ (output # Undefined /\ Len(input) = 0) =>
           UnpublishOk /\ requests = <<>>

\* Three identifiers of two repositories, one of them given twice
C15_Witness ==
    /\ UnpublishOk
    /\ Len(input) = 3
    /\ Cardinality(Owners) = 2
    /\ input[1] = input[3]
    /\ Len(requests) = 2
    /\ Len(requests[1].writes) = 2

C15_WitnessEmpty == UnpublishOk /\ Len(input) = 0

\* The repositories in the order in which the input first names them
OwnersInOrder ==
    LET firsts == Ascending({i \in 1..Len(input) :
                      \A j \in 1..(i - 1) : OwnerOf(j) # OwnerOf(i)})
    IN  [g \in 1..Len(firsts) |-> OwnerOf(firsts[g])]

\* Does the ledger hold a record that request names?
Holds(request) ==
    \E r \in ledger : \E w \in 1..Len(request.writes) :
        r.uri = <<"at:", "", request.repo, request.writes[w].collection,
                  request.writes[w].rkey>>

Failed(i) == output.replies[i].threw

\* C16: a request that fails is the last one sent and unpublish returns its
\* error; the requests sent are those of the first repositories in
\* first-occurrence order, those before the failed one stay applied, no
\* request re-creates anything, and the later repositories get no request and
\* keep their records.
C16_FailureStopsWithoutRollback ==
    (output # Undefined /\ \E i \in 1..output.sent : Failed(i)) =>
        LET f == CHOOSE i \in 1..output.sent : Failed(i)
        IN  /\ UnpublishErr
            /\ output.result.message = output.replies[f].message
            /\ f = Len(requests)
            /\ \A i \in 1..f :
                   /\ requests[i].repo = OwnersInOrder[i]
                   /\ \A w \in 1..Len(requests[i].writes) :
                          requests[i].writes[w].type = DeleteType
            /\ \A i \in 1..(f - 1) : ~Failed(i) /\ ~Holds(requests[i])
            /\ \A g \in (f + 1)..Len(OwnersInOrder) :
                   \A i \in 1..Len(input) :
                       OwnerOf(i) = OwnersInOrder[g] => input[i] \in ledger

\* The second repository's request fails after the first one's was applied
C16_Witness ==
    /\ UnpublishErr
    /\ output.sent = 2
    /\ Failed(2)
    /\ ~output.replies[2].applied
    /\ input[1].uri[4] = COLLECTION
    /\ input[1] \notin ledger
    /\ ~Holds(requests[1])
    /\ Holds(requests[2])

\* The first repository's request fails and the second is never sent
C16_WitnessLaterUntouched ==
    /\ UnpublishErr
    /\ Len(OwnersInOrder) = 2
    /\ output.sent = 1
    /\ Failed(1)
    /\ Len(requests) = 1

\* The identifiers whose uri ATUri rejects
InvalidInputs == {i \in 1..Len(input) : ATUriThrows(input[i].uri)}

\* Every identifier of the input is in a group
AllGrouped ==
    \A i \in 1..Len(input) :
        \E g \in 1..Len(output.groups) :
            \E j \in 1..Len(output.groups[g].records) :
                output.groups[g].records[j].uri = input[i].uri

\* C30: unpublish parses and groups every identifier before it sends a delete
\* request; when some identifier's uri does not split into five parts it
\* returns an error and has sent no request, whatever valid identifiers
\* precede it, and the ledger is as it was.
C30_ParseAllBeforeAnyRequest ==
    /\ requests # <<>> => (InvalidInputs = {} /\ AllGrouped)
    /\ (output # Undefined /\ InvalidInputs # {}) =>
           /\ UnpublishErr
           /\ output.result.message = <<"Invalid AT URI">>
           /\ output.sent = 0
           /\ requests = <<>>
           /\ \A i \in 1..Len(input) : i \notin InvalidInputs => input[i] \in ledger

\* Two valid identifiers of two repositories precede an invalid one
C30_Witness ==
    /\ UnpublishErr
    /\ Len(input) = 3
    /\ InvalidInputs = {3}
    /\ OwnerOf(1) # OwnerOf(2)
    /\ requests = <<>>
    /\ {input[1], input[2]} \subseteq ledger

\* All identifiers were grouped and the first request has been sent
C30_WitnessAllValid ==
    /\ Len(input) = 3
    /\ InvalidInputs = {}
    /\ Len(requests) = 1
    /\ Len(output.groups) = 2
    /\ AllGrouped

\* The positions in the input of the identifiers of repository repo, in order
InputsOf(repo) == Ascending({i \in 1..Len(input) : OwnerOf(i) = repo})

\* The i-th delete of a request is made for the i-th identifier of the
\* request's repository
NamedBy(request, i) == input[InputsOf(request.repo)[i]].uri

\* C33: every delete operation unpublish sends addresses the record the input
\* identifier's uri names: the repository is the uri's DID, the record key the
\* uri's record key, the collection the uri's collection.
C33_DeleteAddressesNamedRecord ==
    \A n \in 1..Len(requests) :
        /\ Len(requests[n].writes) = Len(InputsOf(requests[n].repo))
        /\ \A i \in 1..Len(requests[n].writes) :
               /\ requests[n].repo = NamedBy(requests[n], i)[3]
               /\ requests[n].writes[i].collection = NamedBy(requests[n], i)[4]
               /\ requests[n].writes[i].rkey = NamedBy(requests[n], i)[5]

\* Of C33 the code keeps this much: the repository and the record key are the
\* uri's, the collection is the adapter's own whatever the uri names.
C33_RepositoryAndKeyFromUri ==
    \A n \in 1..Len(requests) :
        /\ Len(requests[n].writes) = Len(InputsOf(requests[n].repo))
        /\ \A i \in 1..Len(requests[n].writes) :
               /\ requests[n].repo = NamedBy(requests[n], i)[3]
               /\ requests[n].writes[i].collection = COLLECTION
               /\ requests[n].writes[i].rkey = NamedBy(requests[n], i)[5]

\* unpublish returned ok for an identifier of another collection after a
\* delete the ledger applied, and the ledger still holds the record it names
C33_NamedRecordKept ==
    /\ UnpublishOk
    /\ Len(input) = 1
    /\ input[1].uri[4] # COLLECTION
    /\ output.replies[1].applied
    /\ input[1] \in ledger

(***************************************************************************)
(* Properties of the store                                                 *)
(***************************************************************************)
SamePair(r1, r2) == r1.uri = r2.uri /\ r1.cid = r2.cid

\* C22: no two rows of published_records have the same uri and the same cid;
\* an insert, or an update, that would give a second row the pair of an
\* existing one is rejected and leaves the table as it was.
C22_UriCidUnique ==
    /\ \A r1, r2 \in store : SamePair(r1, r2) => r1 = r2
    /\ (/\ output # Undefined
        /\ output.kind \in {"insert", "update"}
        /\ \E r \in output.before : r.id # output.row.id /\ SamePair(r, output.row))
           => (~output.accepted /\ store = output.before)

\* A row with a new id and the pair of an existing row is refused
C22_Witness ==
    /\ output # Undefined
    /\ output.kind = "insert"
    /\ Cardinality(output.before) = 2
    /\ \E r \in output.before : r.id # output.row.id /\ SamePair(r, output.row)
    /\ \A r \in output.before : r.id # output.row.id
    /\ ~output.accepted
    /\ store = output.before

\* The same uri is stored under two content hashes
C22_WitnessSameUri ==
    /\ Cardinality(store) = 2
    /\ \A r1, r2 \in store : r1.uri = r2.uri

(***************************************************************************)
(* Properties of two invocations at once                                   *)
(***************************************************************************)
\* What one invocation keeps for itself
Local(k) ==
    <<pc[k], dto[k], idx[k], built[k], batch[k], pubMap[k], resp[k], result[k],
      saves[k]>>

\* The ids of the annotations invocation k has assembled
OwnIds(k) == IF batch[k] = Undefined THEN {} ELSE BatchIds(k)

\* The published-record identifiers the ledger assigned to the annotations of
\* invocation k: the records of its writes, and the results of the response
\* it was given, one per annotation
AssignedTo(k) ==
    UNION {{RecordOf(RequestsBy(k)[n].repo, RequestsBy(k)[n].writes[i]) :
               i \in 1..Len(RequestsBy(k)[n].writes)} :
           n \in 1..Len(RequestsBy(k))}
    \cup (IF resp[k] = Undefined THEN {}
          ELSE {LedgerIdOf(k, i) :
                   i \in {j \in 1..Len(ResultsOf(k)) :
                             j <= Len(batch[k].annotations)}})

\* The published-record identifiers invocation k holds: in the map publish
\* returned, on the annotations of its batch, on its annotations in the store
CarriedBy(k) ==
    {e[2] : e \in pubMap[k]}
    \cup {a.publishedRecordId :
             a \in {b \in Range(IF batch[k] = Undefined THEN <<>>
                                ELSE batch[k].annotations) \cup store :
                       b.id \in OwnIds(k) /\ b.publishedRecordId # Undefined}}

NoForeignIdentifier ==
    \A k, j \in Callers :
        /\ k # j => CarriedBy(k) \cap AssignedTo(j) = {}
        /\ CarriedBy(k) \subseteq AssignedTo(k)

\* A step is the step of one invocation: it leaves what the other keeps as it
\* was, and changes of the store and the ledger what is the stepping
\* invocation's own.
OwnStep ==
    /\ (\A k \in Callers : Local(k)' = Local(k))
           => UNCHANGED <<requests, ledger, store>>
    /\ \A k \in Callers :
           Local(k)' # Local(k) =>
               /\ \A j \in Callers \ {k} : Local(j)' = Local(j)
               /\ \/ requests' = requests
                  \/ /\ Len(requests') = Len(requests) + 1
                     /\ SubSeq(requests', 1, Len(requests)) = requests
                     /\ requests'[Len(requests')].by = k
               /\ ledger \subseteq ledger'
               /\ (ledger' \ ledger) \subseteq AssignedTo(k)'
               /\ \A a \in store \cup store' :
                      a.id \notin OwnIds(k) => (a \in store <=> a \in store')

\* What the outcome of an invocation is when it runs alone, said of each of
\* the two
OutcomeAsAlone ==
    /\ C1_FailFastBeforeSideEffects
    /\ C2_NoCompensationAfterPublish
    /\ C7_FailureCarriesCauseAndNothingPublished
    /\ C8_SuccessOutput
    /\ C9_RoundTrip
    /\ C10_MissingTemplateNotFound
    /\ C19_NoExceptionEscapes

\* C27: of two invocations interleaved at their steps, neither holds, marks
\* or stores a published-record identifier the ledger assigned to the other;
\* every step changes the state of one invocation only and of the store and
\* the ledger only that invocation's own annotations and records; and the
\* outcome of each obeys what holds of an invocation alone.
C27_InvocationsIsolated ==
    /\ []NoForeignIdentifier
    /\ [][OwnStep]_vars
    /\ []OutcomeAsAlone

\* Both invocations published into the same repository before either marked
\* its batch, and both succeeded, each with its own identifier stored
C27_Witness ==
    /\ Succeeded(1) /\ Succeeded(2)
    /\ Len(requests) = 2
    /\ requests[1].by = 2 /\ requests[2].by = 1
    /\ requests[1].repo = requests[2].repo
    /\ Cardinality(store) = 2
    /\ \A k \in Callers :
           /\ Len(batch[k].annotations) = 1
           /\ StoredById(batch[k].annotations[1].id).publishedRecordId
                  = LedgerIdOf(k, 1)
    /\ LedgerIdOf(1, 1) # LedgerIdOf(2, 1)

\* Both have published, neither has marked its batch yet
C27_WitnessBothPublished ==
    /\ pc[1] = "mark-published" /\ pc[2] = "mark-published"
    /\ pubMap[1] # {} /\ pubMap[2] # {}
    /\ Cardinality(ledger) = 2

\* One succeeded, the other failed at its publish in between
C27_WitnessOneFails ==
    /\ Succeeded(1)
    /\ Returned(2) /\ ~result[2].ok /\ result[2].kind = "PublishFailure"
    /\ Len(requests) = 2
    /\ Cardinality(store) = 1

(***************************************************************************)
(* Properties of runs in which every call returns                          *)
(***************************************************************************)
\* The field lookups invocation k has made: one per annotation built, and
\* one more when it ended in per-input
FieldLookupsWithin(k) ==
    /\ Len(built[k]) <= Len(dto[k].annotations)
    /\ pc[k] = "per-input" => idx[k] = Len(built[k]) + 1
                              /\ idx[k] <= Len(dto[k].annotations)

\* A step of per-input looks up the field of one input and either ends the
\* invocation or goes on to the next input
OneLookupPerStep(k) ==
    (pc[k] = "per-input" /\ Local(k)' # Local(k)) =>
        \/ Returned(k)' /\ built'[k] = built[k]
        \/ /\ Len(built'[k]) = Len(built[k]) + 1
           /\ idx'[k] = idx[k] + 1
           /\ pc'[k] \in {"per-input", "assemble-batch"}

SavesWithin(k) ==
    /\ saves[k] <= (IF batch[k] = Undefined THEN 0
                    ELSE Len(batch[k].annotations))
    /\ saves[k] <= Len(dto[k].annotations)

\* C28: when every collaborator call returns, an invocation that has started
\* reaches respond, with the success output or an error, after at most one
\* field lookup per input annotation and at most one save per annotation.
C28_Terminates ==
    /\ \A k \in Callers : (pc[k] # "idle") ~> Returned(k)
    /\ [](\A k \in Callers : Returned(k) => IsOutput(result[k]))
    /\ [](\A k \in Callers : FieldLookupsWithin(k) /\ SavesWithin(k))
    /\ [][\A k \in Callers : OneLookupPerStep(k)]_vars

\* The longest run: two inputs looked up, two annotations saved, success
C28_Witness ==
    /\ Succeeded(1)
    /\ Len(dto[1].annotations) = 2
    /\ Len(built[1]) = 2
    /\ saves[1] = 2

\* A run that ends at the second field lookup
C28_WitnessSecondLookupFails ==
    /\ Returned(1) /\ ~result[1].ok
    /\ Len(built[1]) = 1
    /\ idx[1] = 2
    /\ batch[1] = Undefined

\* A run that ends at the second save
C28_WitnessSecondSaveFails ==
    /\ Returned(1) /\ ~result[1].ok
    /\ result[1].kind = "PersistFailure"
    /\ saves[1] = 2
    /\ Cardinality(store) = 1

(***************************************************************************)
(* Properties of the publisher adapter as a whole                          *)
(***************************************************************************)
\* A value of the tagged result type: a success carrying a value, or an
\* error carrying a message; not an exception
IsResult(r) ==
    IF r.ok THEN DOMAIN r = {"ok", "value"}
    ELSE r.kind = "Error" /\ Len(r.message) > 0

\* What publish itself returned to invocation k
PublishReturnValue(k) ==
    PublishResult(batch[k].annotations, resp[k])

\* C32: publish and unpublish never throw: whatever the batch or the record
\* identifiers and whatever the ledger client does (a call that throws, a
\* response without data or with results missing, an identifier whose uri is
\* invalid), the call returns a success value or an error value.
C32_PublisherNeverThrows ==
    /\ \A k \in Callers : PublishReturned(k) => IsResult(PublishReturnValue(k))
    /\ UnpublishReturned => IsResult(output.result)

\* publish returned an error for a response without data
C32_Witness ==
    /\ PublishReturned(1)
    /\ resp[1] # Undefined
    /\ ~resp[1].threw
    /\ resp[1].data = Undefined
    /\ ~PublishReturnValue(1).ok
    /\ PublishReturnValue(1).message = <<"Cannot read properties of undefined">>

\* publish returned an error for a call of the ledger client that threw
C32_WitnessPublishThrew ==
    /\ PublishReturned(1)
    /\ resp[1] # Undefined
    /\ resp[1].threw
    /\ PublishReturnValue(1) = Err("Error", resp[1].message)

\* unpublish returned an error for an identifier with an invalid uri, and for
\* a delete request that threw
C32_WitnessInvalidUri ==
    /\ UnpublishErr
    /\ InvalidInputs # {}
    /\ output.result = Err("Error", <<"Invalid AT URI">>)

C32_WitnessDeleteThrew ==
    /\ UnpublishErr
    /\ output.sent > 0
    /\ output.replies[output.sent].threw
    /\ output.result = Err("Error", output.replies[output.sent].message)

=============================================================================
